---------------------------- MODULE Spec2Model ----------------------------
(***************************************************************************)
(* Model of the notification aggregation engine of the iNaturalist Link   *)
(* Manager extension: the NotificationStore (lib/notifications.js), the   *)
(* NotificationController (load / enrich), the authenticated API request  *)
(* (lib/notifications-api.js) and the dropdown that owns a Controller.    *)
(*                                                                         *)
(* Two specifications share the module:                                    *)
(*   StoreSpec - a NotificationStore driven directly through add/clear,    *)
(*               for the claims about the Store's pure merge algebra;      *)
(*   Spec      - one Controller session (dropdown + Controller + Store +   *)
(*               enrichment activations), LiveSpec adds the event loop's   *)
(*               fairness.                                                 *)
(***************************************************************************)
EXTENDS Integers, Sequences, FiniteSets

VARIABLES
    sStore,       \* StoreSpec: NotificationStore.notifications (Map, insertion order)
    sEvents,      \* StoreSpec: what the last add() did: inserted / replaced / discarded
    store,        \* controller.store.notifications (Map, insertion order)
    isLoading,    \* controller.isLoading
    error,        \* controller.error: Nil | Some(message)
    debugData,    \* controller.debugData: Nil | Some(the three settled results)
    loads,        \* activations of load() suspended at the allSettled join
    enrichments,  \* activations of enrich() suspended at one of its awaits
    jwt,          \* browser.storage.local: "valid" when getStoredJWT returns a token
    dropdown,     \* NotificationsDropdown.dropdown # null
    ev,           \* the handler that ran last and the callbacks it invoked
    totalPages,   \* Controller: the page count of the last API result
    totalResults, \* the number of notifications the account has at the API
    notifPage,    \* sidebar: the page the list shows
    pageButtons,  \* sidebar: the disabled attributes of the prev and next buttons
    local,        \* browser.storage.local: the stored token and the saved items
    clock,        \* Date.now(), in ticks
    tasks,        \* the background script's suspended activations
    log,          \* what the activations returned
    call          \* FetchSpec: the last call of a fetch helper, its input and result

storeVars == <<sStore, sEvents>>

\* The objects exercised directly, outside a Controller session.
\* The background script's state.
bgVars == <<local, clock, tasks, log>>

directVars == <<sStore, sEvents, call, local, clock, tasks, log>>

\* The sidebar's pagination state.
sidebarVars == <<notifPage, pageButtons>>

ctlVars == <<store, isLoading, error, debugData, loads, enrichments, jwt, dropdown, ev,
             totalPages, totalResults, notifPage, pageButtons>>

vars == <<sStore, sEvents, store, isLoading, error, debugData, loads, enrichments,
          jwt, dropdown, ev, totalPages, totalResults, notifPage, pageButtons, call,
          local, clock, tasks, log>>

----------------------------------------------------------------------------
(* Nullable values: JavaScript null is Nil, a present value x is Some(x).  *)

Nil == <<>>

Some(x) == <<x>>

\* 10-minute dedup bucket, in milliseconds (getNotificationKey).
BucketMs == 600000

\* createdAt values in milliseconds: 12:00 and 12:04 fall in one 10-minute
\* bucket, 12:11 in the next.
SampleTimes == <<0, 240000, 660000>>

T0 == SampleTimes[1]

T4 == SampleTimes[2]

T11 == SampleTimes[3]

----------------------------------------------------------------------------
(* Notification records.                                                   *)
(*   id             source-qualified id                                    *)
(*   source         "api_v1" | "json" | "html"                            *)
(*   category       "mention" | "comment" | "identification"              *)
(*   viewed         "true" | "false" | "null"                             *)
(*   createdAt      Nil | Some(ms since epoch)                             *)
(*   observationId  [prefix, num]: String(id) is prefix followed by num;   *)
(*                  prefix is "" for a numeric id, "comment_" for the      *)
(*                  marker written by HtmlFetcher.parseHtml                *)
(*   observationUrl [path, num, anchor]: .../<path>/<num>[#activity_       *)
(*                  comment_<anchor>]                                      *)
(*   login          user.login                                             *)
(*   observation    Nil | Some(enrichment block)                           *)

ObsId(n) == [prefix |-> "", num |-> n]

\* v || '' for a string that may be missing.
orEmpty(v) == IF v = Nil THEN "" ELSE v[1]

PendingId(c) == [prefix |-> "comment_", num |-> c]

ObsUrl(n) == [path |-> "observations", num |-> n, anchor |-> Nil]

CommentUrl(c) == [path |-> "comments", num |-> c, anchor |-> Nil]

AnchoredUrl(n, c) == [path |-> "observations", num |-> n, anchor |-> Some(c)]

Notif(id, source, category, viewed, createdAt, observationId, observationUrl, login) ==
    [id |-> id, source |-> source, category |-> category, viewed |-> viewed,
     createdAt |-> createdAt, observationId |-> observationId,
     observationUrl |-> observationUrl, login |-> login, observation |-> Nil]

\* Math.floor(ms / 600000); createdAt is a Date or null.
timeKey(notif) ==
    IF notif.createdAt = Nil THEN Nil ELSE Some(notif.createdAt[1] \div BucketMs)

\* A mutant of getNotificationKey: the key without the user component.
getNotificationKeyNoUser(notif) ==
    <<notif.observationId, notif.category, timeKey(notif)>>

\* Text is a sequence of pieces: the digits of a number, or a run of other
\* characters.  A hyphen inside a text is a piece of its own.
Digits(n) == [num |-> n]

Chars(c) == [txt |-> c]

\* The text of an observationId: its prefix, if any, and its digits; the
\* empty string has neither.
IdText(id) ==
    (IF id.prefix = "" THEN <<>> ELSE <<Chars(id.prefix)>>)
        \o (IF id.prefix = "" /\ id.num = 0 THEN <<>> ELSE <<Digits(id.num)>>)

\* The text of a login; the model's one login with a hyphen in it is split
\* at the hyphen.
LoginText(login) ==
    IF login = "ann-lee" THEN <<Chars("ann"), Chars("-"), Chars("lee")>>
    ELSE <<Chars(login)>>

\* The text of timeKey: the bucket's digits, or 'unknown'.
TimeText(bucket) == IF bucket = Nil THEN <<Chars("unknown")>> ELSE <<Digits(bucket[1])>>

\* const userKey = notif.user?.login || 'unknown'
userKey(notif) == IF notif.login = "" THEN "unknown" ELSE notif.login

\* A mutant of getNotificationKey: the time component is the timestamp
\* itself, not its bucket.
getNotificationKeyExactTime(notif) ==
    IdText(notif.observationId) \o <<Chars("-")>> \o <<Chars(notif.category)>>
        \o <<Chars("-")>> \o LoginText(userKey(notif))
        \o <<Chars("-")>> \o TimeText(notif.createdAt)

\* `${observationId}-${category}-${userKey}-${timeKey}`: the template's four
\* values and three hyphens, joined into one text.
getNotificationKey(notif) ==
    IdText(notif.observationId) \o <<Chars("-")>> \o <<Chars(notif.category)>>
        \o <<Chars("-")>> \o LoginText(userKey(notif))
        \o <<Chars("-")>> \o TimeText(timeKey(notif))

----------------------------------------------------------------------------
(* NotificationStore: a JavaScript Map, modelled as the sequence of its    *)
(* entries [key, rec] in insertion order.                                  *)

MapHas(s, k) == \E i \in 1..Len(s) : s[i].key = k

MapIndex(s, k) == CHOOSE i \in 1..Len(s) : s[i].key = k

MapGet(s, k) == s[MapIndex(s, k)].rec

\* A mutant of MapSet: the entry is pushed instead of overwritten.
MapSetPush(s, k, r) == Append(s, [key |-> k, rec |-> r])

\* Map.set: overwrite in place when the key exists, else append.
MapSet(s, k, r) ==
    IF MapHas(s, k)
    THEN [s EXCEPT ![MapIndex(s, k)] = [key |-> k, rec |-> r]]
    ELSE Append(s, [key |-> k, rec |-> r])

sourcePriority(source) ==
    CASE source = "api_v1" -> 3
      [] source = "json" -> 2
      [] source = "html" -> 1
      [] OTHER -> 0

\* A mutant of Replaces: the comparison is inverted.
ReplacesInverted(notif, existing) ==
    sourcePriority(notif.source) < sourcePriority(existing.source)

\* A mutant of Replaces: the last record written under a key wins.
ReplacesAlways(notif, existing) == TRUE

\* A mutant of Replaces: a record of equal rank replaces the stored one.
ReplacesOnTie(notif, existing) ==
    sourcePriority(notif.source) >= sourcePriority(existing.source)

\* add(): newPriority > existingPriority.
Replaces(notif, existing) ==
    sourcePriority(notif.source) > sourcePriority(existing.source)

\* One iteration of add()'s loop.
addOne(s, notif) ==
    LET key == getNotificationKey(notif) IN
    IF MapHas(s, key)
    THEN IF Replaces(notif, MapGet(s, key)) THEN MapSet(s, key, notif) ELSE s
    ELSE MapSet(s, key, notif)

RECURSIVE add(_, _)
add(s, notifications) ==
    IF notifications = <<>> THEN s
    ELSE add(addOne(s, Head(notifications)), Tail(notifications))

\* What one iteration of add() did to the Map.
addEvent(s, notif) ==
    LET key == getNotificationKey(notif) IN
    IF MapHas(s, key)
    THEN IF Replaces(notif, MapGet(s, key)) THEN "replaced" ELSE "discarded"
    ELSE "inserted"

RECURSIVE addEvents(_, _)
addEvents(s, notifications) ==
    IF notifications = <<>> THEN {}
    ELSE {addEvent(s, Head(notifications))}
         \cup addEvents(addOne(s, Head(notifications)), Tail(notifications))

\* A mutant of clear: the Map keeps its entries.
clearKeeping(s) == s

\* NotificationStore.clear
clear(s) == <<>>

size(s) == Len(s)

StoreRecs(s) == {s[i].rec : i \in 1..Len(s)}

----------------------------------------------------------------------------
(* Store queries and in-place enrichment.                                  *)

\* A mutant of sortCompare: records without a timestamp sort first.
sortCompareNullsFirst(a, b) ==
    IF a.createdAt = Nil /\ b.createdAt = Nil THEN 0
    ELSE IF a.createdAt = Nil THEN -1
    ELSE IF b.createdAt = Nil THEN 1
    ELSE IF b.createdAt[1] > a.createdAt[1] THEN 1
    ELSE IF b.createdAt[1] < a.createdAt[1] THEN -1
    ELSE 0

\* getAll()'s comparator (its sign): null timestamps last, newest first.
sortCompare(a, b) ==
    IF a.createdAt = Nil /\ b.createdAt = Nil THEN 0
    ELSE IF a.createdAt = Nil THEN 1
    ELSE IF b.createdAt = Nil THEN -1
    ELSE IF b.createdAt[1] > a.createdAt[1] THEN 1
    ELSE IF b.createdAt[1] < a.createdAt[1] THEN -1
    ELSE 0

\* x placed into the sorted list after every element that does not sort
\* after it (Array.prototype.sort is stable).
RECURSIVE sortInsert(_, _)
sortInsert(sorted, x) ==
    IF sorted = <<>> THEN <<x>>
    ELSE IF sortCompare(Head(sorted), x) <= 0
         THEN <<Head(sorted)>> \o sortInsert(Tail(sorted), x)
         ELSE <<x>> \o sorted

RECURSIVE stableSort(_)
stableSort(list) ==
    IF list = <<>> THEN <<>>
    ELSE sortInsert(stableSort(SubSeq(list, 1, Len(list) - 1)), list[Len(list)])

\* Array.from(this.notifications.values())
values(s) == [i \in 1..Len(s) |-> s[i].rec]

getAll(s) == stableSort(values(s))

IsMention(n) == n.category = "mention"

getByCategory(s, category) ==
    LET InCategory(n) == n.category = category IN SelectSeq(getAll(s), InCategory)

\* The loop of getCounts over the Map's values: a category that is a key of
\* `counts` is incremented, and the total always is.
RECURSIVE countInto(_, _)
countInto(counts, notifications) ==
    IF notifications = <<>> THEN counts
    ELSE LET category == Head(notifications).category
             c1 == IF category \in DOMAIN counts
                   THEN [counts EXCEPT ![category] = @ + 1] ELSE counts
         IN countInto([c1 EXCEPT !.total = @ + 1], Tail(notifications))

NoCounts == [mention |-> 0, comment |-> 0, identification |-> 0, total |-> 0]

\* A mutant of getCounts: the counts of getUnreadCounts, which skips the
\* records that are not unread.
getCountsUnreadOnly(s) ==
    LET Unread(n) == n.viewed = "false"
    IN countInto(NoCounts, SelectSeq(values(s), Unread))

\* NotificationStore.getCounts
getCounts(s) == countInto(NoCounts, values(s))

\* notif.observationUrl.match(/observations\/(\d+)/): Nil when no match.
urlObservationId(url) == IF url.path = "observations" THEN Some(url.num) ELSE Nil

\* The distinct values of a list, in order of first occurrence (a JS Set).
RECURSIVE distinct(_)
distinct(list) ==
    IF list = <<>> THEN <<>>
    ELSE LET front == distinct(SubSeq(list, 1, Len(list) - 1))
             x == list[Len(list)]
         IN IF \E i \in 1..Len(front) : front[i] = x THEN front ELSE Append(front, x)

getObservationIds(s) ==
    LET HasId(n) == urlObservationId(n.observationUrl) # Nil
        withId == SelectSeq(values(s), HasId)
    IN distinct([i \in 1..Len(withId) |-> withId[i].observationUrl.num])

\* m.observationId?.startsWith('comment_')
startsWithComment(n) == n.observationId.prefix = "comment_"

\* The block enrichWithObservations builds from obsData.
observationBlock(obsData) == [builtFrom |-> obsData.id]

\* The observation data the API returns for observation n.
ObsData(n) == [id |-> n]

\* A mutant of enrichWithObservations: a record that already carries an
\* observation block loses it.
enrichWithObservationsToggle(s, fetched) ==
    [i \in 1..Len(s) |->
        IF /\ s[i].rec.observationUrl.path = "observations"
           /\ s[i].rec.observationUrl.num \in fetched
        THEN [s[i] EXCEPT !.rec.observation =
                 IF s[i].rec.observation = <<>>
                 THEN <<[builtFrom |-> s[i].rec.observationUrl.num]>>
                 ELSE <<>>]
        ELSE s[i]]

\* A mutant of enrichWithObservations: every record with an observation URL
\* gets the block of one fetched observation, whatever its own id.
enrichWithObservationsUnkeyed(s, fetched) ==
    [i \in 1..Len(s) |->
        IF s[i].rec.observationUrl.path = "observations" /\ fetched # {}
        THEN [s[i] EXCEPT !.rec.observation =
                 <<[builtFrom |-> CHOOSE n \in fetched : \A m \in fetched : n >= m]>>]
        ELSE s[i]]

\* enrichWithObservations(observationsMap); the map's keys are `fetched`.
enrichWithObservations(s, fetched) ==
    [i \in 1..Len(s) |->
        LET obsId == urlObservationId(s[i].rec.observationUrl) IN
        IF obsId # Nil /\ obsId[1] \in fetched
        THEN [s[i] EXCEPT !.rec.observation = Some(observationBlock(ObsData(obsId[1])))]
        ELSE s[i]]

\* A mutant of applyCommentMapping: a mention whose comment id found no
\* observation is removed from the Map.
applyCommentMappingDropping(s, refs, mapping) ==
    LET Kept(e) == ~(/\ e.rec.id \in refs
                     /\ e.rec.observationId.prefix = "comment_"
                     /\ e.rec.observationId.num \in DOMAIN mapping
                     /\ mapping[e.rec.observationId.num] = <<>>)
    IN SelectSeq(s, Kept)

\* enrich()'s loop over `mentions`: the records are mutated through the
\* references getByCategory returned, the Map's keys are not touched.
\* `refs` are the ids of the referenced records that are still in the Map,
\* `mapping` gives Nil or Some(observation id) per comment id.
applyCommentMapping(s, refs, mapping) ==
    [i \in 1..Len(s) |->
        LET m == s[i].rec IN
        IF /\ m.id \in refs
           /\ startsWithComment(m)
           /\ m.observationId.num \in DOMAIN mapping
           /\ mapping[m.observationId.num] # Nil
        THEN [s[i] EXCEPT !.rec.observationId = ObsId(mapping[m.observationId.num][1]),
                          !.rec.observationUrl =
                              AnchoredUrl(mapping[m.observationId.num][1],
                                          m.observationId.num)]
        ELSE s[i]]

----------------------------------------------------------------------------
(* Error messages, as their words; String.includes is a search for a       *)
(* contiguous run of words.                                                *)

MsgNotAuthenticated ==
    <<"Not", "authenticated", ".", "Please", "visit", "iNaturalist.org", "while",
      "logged", "in", ".">>

MsgSessionExpired ==
    <<"Session", "expired", ".", "Please", "visit", "iNaturalist.org", "while",
      "logged", "in", ".">>

MsgApiError == <<"API", "error", ":", "500">>

MsgNotLoggedIn == <<"Not", "logged", "in", "to", "iNaturalist">>

MsgCallbackThrew == <<"callback", "threw">>

NeedleNotAuthenticated == <<"Not", "authenticated">>

includes(message, needle) ==
    \E i \in 1..(Len(message) - Len(needle) + 1) :
        SubSeq(message, i, i + Len(needle) - 1) = needle

----------------------------------------------------------------------------
(* What the three sources can answer.  All records are normalized          *)
(* (createNotification).                                                   *)

\* An item of the API's /observations/updates results, by the fields
\* categorizeNotification can read: notifier_type, whether a comment or an
\* identification object is nested, and the `notification` tag.
RawUpdate(notifier_type, comment, identification, notification) ==
    [notifier_type |-> notifier_type, comment |-> comment,
     identification |-> identification, notification |-> notification]

\* A mutant of categorizeNotification: the `notification` tag is honoured,
\* as JsonFetcher does.
categorizeByTag(notification) ==
    IF notification.notification = Some("mention") THEN "mention"
    ELSE IF notification.notifier_type = Some("Comment") \/ notification.comment
         THEN "comment"
         ELSE "identification"

\* NotificationsAPI.categorizeNotification
categorizeNotification(notification) ==
    LET notifierType == orEmpty(notification.notifier_type) IN
    IF notifierType = "Comment" \/ notification.comment THEN "comment"
    ELSE IF notifierType = "Identification" \/ notification.identification
         THEN "identification"
         ELSE "identification"

\* api_v1: two comments by bob on observation 100 four minutes apart (one
\* dedup key), and an identification by amy on observation 200.
ApiComment1 ==
    Notif("api_v1_1", "api_v1",
          categorizeNotification(RawUpdate(Some("Comment"), TRUE, FALSE, Some("activity"))),
          "false", Some(T0), ObsId(100), ObsUrl(100), "bob")

\* The update item of this one is tagged notification: 'mention', as the
\* items of the JSON endpoint are; it has no notifier_type.
ApiComment2 ==
    Notif("api_v1_2", "api_v1",
          categorizeNotification(RawUpdate(Nil, TRUE, FALSE, Some("mention"))),
          "true", Some(T4), ObsId(100), ObsUrl(100), "bob")

\* The update item of this one has neither a notifier_type nor a nested
\* resource.
ApiIdent ==
    Notif("api_v1_3", "api_v1",
          categorizeNotification(RawUpdate(Nil, FALSE, FALSE, Nil)),
          "true", Some(T11), ObsId(200), ObsUrl(200), "amy")

\* json: a mention by bob on observation 100 and a comment (same key as
\* ApiComment1).
JsonMention ==
    Notif("json_7", "json", "mention", "false", Some(T0), ObsId(100), ObsUrl(100), "bob")

JsonComment ==
    Notif("json_8", "json", "comment", "false", Some(T0), ObsId(100), ObsUrl(100), "bob")

\* html: the same mention scraped with an observation link (T4), a mention
\* scraped with only a /comments/5 link (pending marker), and a comment.
HtmlMention ==
    Notif("html_0_100", "html", "mention", "null", Some(T4), ObsId(100), ObsUrl(100), "bob")

HtmlPending ==
    Notif("html_0_comment_5", "html", "mention", "null", Some(T0), PendingId(5),
          CommentUrl(5), "bob")

HtmlComment ==
    Notif("html_1_100", "html", "comment", "null", Some(T0), ObsId(100), ObsUrl(100), "bob")

ApiPayloads == {<<>>, <<ApiComment1, ApiComment2, ApiIdent>>}

JsonPayloads == {<<>>, <<JsonComment, JsonMention>>}

HtmlPayloads == {<<>>, <<HtmlMention, HtmlPending, HtmlComment>>}

\* The observation a /comments/<id> probe can redirect to.
RedirectTargets == {100, 200}

\* `value` holds the notifications of a result and `total` its total.
Pending == [status |-> "pending", value |-> <<>>, reason |-> <<>>, total |-> 0]

\* JsonFetcher and HtmlFetcher return total: notifications.length.
Fulfilled(notifications) ==
    [status |-> "fulfilled", value |-> notifications, reason |-> <<>>,
     total |-> Len(notifications)]

\* ApiV1Fetcher returns total: response.totalResults || 0.
FulfilledOf(notifications, total) ==
    [Fulfilled(notifications) EXCEPT !.total = total]

Rejected(message) ==
    [status |-> "rejected", value |-> <<>>, reason |-> message, total |-> 0]

\* A mutant of Settled: the join waits for three fulfilments, and a rejection
\* leaves the load suspended.
AllFulfilled(L) ==
    L.api.status = "fulfilled" /\ L.json.status = "fulfilled" /\ L.html.status = "fulfilled"

\* A mutant of Settled: the await resumes as soon as one fetcher has settled,
\* as a race would.
SettledFirst(L) ==
    L.api.status # "pending" \/ L.json.status # "pending" \/ L.html.status # "pending"

\* Promise.allSettled: the await resumes once no fetcher is pending,
\* whatever each one's outcome.
Settled(L) ==
    L.api.status # "pending" /\ L.json.status # "pending" /\ L.html.status # "pending"

\* seq without its i-th element.
RemoveAt(seq, i) == SubSeq(seq, 1, i - 1) \o SubSeq(seq, i + 1, Len(seq))

\* Live enrich() activations the model allows at once.
MaxEnrich == 2

\* No fetch helper has been called.
NoCall == [fn |-> "none", input |-> <<>>, outcomes |-> <<>>, attempted |-> <<>>,
           result |-> <<>>]

----------------------------------------------------------------------------
(* The Controller session: state after construction.                       *)

\* needsAuth is the needsAuth of the value load() returned, Nil when the
\* handler is not a return of load().
NoEvent == [kind |-> "init", outcome |-> "none", threw |-> FALSE, callbacks |-> <<>>,
            needsAuth |-> Nil, page |-> Nil]

Event(kind) == [NoEvent EXCEPT !.kind = kind]

\* One callback invocation, with the value of isLoading the callee observes.
\* The Store the callee observes is the Store the handler leaves: no handler
\* changes it after its last callback.
Call(cb, arg, loadingNow) == [cb |-> cb, arg |-> arg, isLoading |-> loadingNow]

\* A mutant of needsAuthReturned: every path returns { needsAuth: false }.
needsAuthNever(outcome) == Some(FALSE)

\* The needsAuth of the value load() returns: true on the auth path, false
\* from the single-flight guard, after onUpdate and from the catch block.
needsAuthReturned(outcome) == Some(outcome = "authRequired")

\* The account's notifications fit one page of the API.
OnePage == 3

\* The sidebar's markup: the prev button starts disabled, the next button
\* does not.
HtmlButtons == [prevDisabled |-> TRUE, nextDisabled |-> FALSE]

\* Nothing returned yet.
NoOutcome == [kind |-> "none", outcome |-> "none"]

\* A fresh profile: storage.local is empty and no activation is suspended.
BgInit ==
    /\ local = [jwt |-> Nil, expiry |-> Nil, items |-> <<>>]
    /\ clock = 0
    /\ tasks = <<>>
    /\ log = [last |-> NoOutcome, cleared |-> FALSE, tokens |-> 0, ids |-> 0,
              saved |-> {}]

CtlInit ==
    /\ store = <<>>
    /\ isLoading = FALSE
    /\ error = Nil
    /\ debugData = Nil
    /\ loads = <<>>
    /\ enrichments = <<>>
    /\ jwt \in {"none", "valid"}
    /\ dropdown = FALSE
    /\ ev = NoEvent
    /\ totalPages = 1
    /\ notifPage = 1
    /\ pageButtons = HtmlButtons

----------------------------------------------------------------------------
(* NotificationController.load(), up to its await.                         *)

\* A mutant of AlreadyLoading: the single-flight guard is missing.
NeverLoading == FALSE

\* if (this.isLoading) return { needsAuth: false };
AlreadyLoading == isLoading

\* store.clear() empties the Map: the records an enrich() activation still
\* references are no longer entries of it.
dropReferences(es) == [j \in 1..Len(es) |-> [es[j] EXCEPT !.mentions = <<>>]]

\* load() called while a load is in flight: returns at once.
LoadNoop ==
    /\ AlreadyLoading
    /\ ev' = [Event("noop") EXCEPT !.needsAuth = needsAuthReturned("noop")]
    /\ UNCHANGED <<store, isLoading, error, debugData, loads, enrichments, jwt>>
    /\ UNCHANGED <<totalPages, totalResults>>

\* load() otherwise: set loading, clear, fire the three fetchers, suspend.
LoadStart(page) ==
    /\ ~AlreadyLoading
    /\ Len(enrichments) < MaxEnrich
    /\ isLoading' = TRUE
    /\ error' = Nil
    /\ store' = clear(store)
    /\ enrichments' = dropReferences(enrichments)
    /\ loads' = Append(loads, [api |-> Pending, json |-> Pending, html |-> Pending,
                               page |-> page])
    /\ ev' = Event("start")
    /\ UNCHANGED <<debugData, jwt>>
    /\ UNCHANGED <<totalPages, totalResults>>

\* NotificationsDropdown.open(): create the dropdown, then loadNotifications().
Open ==
    /\ ~dropdown
    /\ dropdown' = TRUE
    /\ (LoadNoop \/ LoadStart(1))
    /\ UNCHANGED sidebarVars
    /\ UNCHANGED directVars

\* NotificationsDropdown.close(): remove the dropdown, reset the state.
Close ==
    /\ dropdown
    /\ dropdown' = FALSE
    /\ store' = clear(store)
    /\ debugData' = Nil
    /\ enrichments' = dropReferences(enrichments)
    /\ ev' = Event("close")
    /\ UNCHANGED <<isLoading, error, loads, jwt>>
    /\ UNCHANGED <<totalPages, totalResults, notifPage, pageButtons>>
    /\ UNCHANGED directVars

----------------------------------------------------------------------------
(* The three fetchers settle, each on its own.                             *)

\* ApiV1Fetcher.fetch -> background getNotifications -> apiRequest.
SettleApi ==
    \E i \in 1..Len(loads) :
        /\ loads[i].api.status = "pending"
        /\ \/ /\ jwt = "none"
              /\ loads' = [loads EXCEPT ![i].api = Rejected(MsgNotAuthenticated)]
              /\ jwt' = jwt
           \/ /\ jwt = "valid"
              /\ \E payload \in ApiPayloads :
                    loads' = [loads EXCEPT ![i].api = FulfilledOf(payload, totalResults)]
              /\ jwt' = jwt
           \/ /\ jwt = "valid"
              /\ loads' = [loads EXCEPT ![i].api = Rejected(MsgSessionExpired)]
              /\ jwt' = "none"
           \/ /\ jwt = "valid"
              /\ loads' = [loads EXCEPT ![i].api = Rejected(MsgApiError)]
              /\ jwt' = jwt
        /\ UNCHANGED <<store, isLoading, error, debugData, enrichments, dropdown, ev>>
        /\ UNCHANGED <<totalPages, totalResults, notifPage, pageButtons>>
        /\ UNCHANGED directVars

\* JsonFetcher.fetch
SettleJson ==
    \E i \in 1..Len(loads) :
        /\ loads[i].json.status = "pending"
        /\ \/ \E payload \in JsonPayloads :
                 loads' = [loads EXCEPT ![i].json = Fulfilled(payload)]
           \/ loads' = [loads EXCEPT ![i].json = Rejected(MsgNotLoggedIn)]
        /\ UNCHANGED <<store, isLoading, error, debugData, enrichments, jwt, dropdown, ev>>
        /\ UNCHANGED <<totalPages, totalResults, notifPage, pageButtons>>
        /\ UNCHANGED directVars

\* HtmlFetcher.fetch
SettleHtml ==
    \E i \in 1..Len(loads) :
        /\ loads[i].html.status = "pending"
        /\ \/ \E payload \in HtmlPayloads :
                 loads' = [loads EXCEPT ![i].html = Fulfilled(payload)]
           \/ loads' = [loads EXCEPT ![i].html = Rejected(MsgNotLoggedIn)]
        /\ UNCHANGED <<store, isLoading, error, debugData, enrichments, jwt, dropdown, ev>>
        /\ UNCHANGED <<totalPages, totalResults, notifPage, pageButtons>>
        /\ UNCHANGED directVars

----------------------------------------------------------------------------
(* load() resumes after Promise.allSettled: merge, auth check, callbacks.  *)

\* A mutant of mentionsOf: the category filter is missing.
allOf(notifications) == notifications

\* notifications.filter(n => n.category === 'mention')
mentionsOf(notifications) == SelectSeq(notifications, IsMention)

\* A mutant of mergeResults: one rejection discards every result, as a
\* short-circuiting join would.
mergeResultsAllOrNothing(s, L) ==
    IF "rejected" \in {L.api.status, L.json.status, L.html.status} THEN s
    ELSE add(add(add(s, L.api.value), mentionsOf(L.json.value)), mentionsOf(L.html.value))

\* The three conditional store.add calls, in the order load() makes them.
mergeResults(s, L) ==
    LET s1 == IF L.api.status = "fulfilled" THEN add(s, L.api.value) ELSE s
        s2 == IF L.json.status = "fulfilled" THEN add(s1, mentionsOf(L.json.value)) ELSE s1
    IN IF L.html.status = "fulfilled" THEN add(s2, mentionsOf(L.html.value)) ELSE s2

\* A mutant of authFailure: the Store's size is not consulted.
authFailureAnySize(s, L) ==
    L.api.status = "rejected" /\ includes(L.api.reason, NeedleNotAuthenticated)

\* this.store.size === 0 && apiResult.status === 'rejected' &&
\* apiResult.reason?.message?.includes('Not authenticated')
authFailure(s, L) ==
    /\ size(s) = 0
    /\ L.api.status = "rejected"
    /\ includes(L.api.reason, NeedleNotAuthenticated)

\* enrich() up to its first await: the activation it leaves suspended, if any.
\* An activation keeps the locals it still reads: `mentions` (as the ids of
\* the referenced records) and commentIds until the mapping is applied,
\* obsIds from then on.
enrichStart(s) ==
    LET mentions == getByCategory(s, "mention")
        pending == SelectSeq(mentions, startsWithComment)
        commentIds == [i \in 1..Len(pending) |-> pending[i].observationId.num]
        refs == [i \in 1..Len(mentions) |-> mentions[i].id]
        obsIds == getObservationIds(s)
    IN IF commentIds # <<>>
       THEN <<[pc |-> "resolve", mentions |-> refs, commentIds |-> commentIds,
               obsIds |-> <<>>]>>
       ELSE IF obsIds = <<>> THEN <<>>
       ELSE <<[pc |-> "fetch", mentions |-> <<>>, commentIds |-> <<>>,
               obsIds |-> obsIds]>>

\* A mutant of loadingAfterLoad: the finally block is missing.
loadingAfterLoadNoFinally(loadingAtReturn) == loadingAtReturn

\* finally { this.isLoading = false; }
loadingAfterLoad(loadingAtReturn) == FALSE

\* load({ page: ..., perPage: 50 }), as both UIs call it.
perPage == 50

\* A mutant of totalPagesAfter: a failed API fetch resets the page count.
totalPagesReset(pages, L) ==
    IF L.api.status = "fulfilled"
    THEN IF (L.api.total + perPage - 1) \div perPage = 0 THEN 1
         ELSE (L.api.total + perPage - 1) \div perPage
    ELSE 1

\* if (apiResult.status === 'fulfilled')
\*   this.totalPages = Math.ceil((apiResult.value.total || 0) / perPage) || 1;
totalPagesAfter(pages, L) ==
    LET ceil == (L.api.total + perPage - 1) \div perPage
    IN IF L.api.status = "fulfilled"
       THEN IF ceil = 0 THEN 1 ELSE ceil
       ELSE pages

\* The join.  `threw` says whether the callback invoked in the try block
\* threw; the callbacks are the UI's.
resumeLoad ==
    \E i \in 1..Len(loads), threw \in BOOLEAN :
        LET L == loads[i]
            merged == mergeResults(store, L)
        IN
        /\ Settled(L)
        /\ store' = merged
        /\ debugData' = Some([apiResult |-> L.api, jsonResult |-> L.json,
                              htmlResult |-> L.html])
        /\ loads' = RemoveAt(loads, i)
        /\ \/ /\ authFailure(merged, L)
              /\ ~threw
              /\ isLoading' = loadingAfterLoad(FALSE)
              /\ error' = error
              /\ enrichments' = enrichments
              /\ ev' = [kind |-> "join", outcome |-> "authRequired", threw |-> FALSE,
                        needsAuth |-> needsAuthReturned("authRequired"),
                        page |-> Some(L.page),
                        callbacks |-> <<Call("onError", "auth", FALSE)>>]
           \/ /\ authFailure(merged, L)
              /\ threw
              /\ isLoading' = loadingAfterLoad(FALSE)
              /\ error' = Some(MsgCallbackThrew)
              /\ enrichments' = enrichments
              /\ ev' = [kind |-> "join", outcome |-> "error", threw |-> TRUE,
                        needsAuth |-> needsAuthReturned("error"),
                        page |-> Some(L.page),
                        callbacks |-> <<Call("onError", "auth", FALSE),
                                        Call("onUpdate", "", FALSE)>>]
           \/ /\ ~authFailure(merged, L)
              /\ ~threw
              /\ isLoading' = loadingAfterLoad(isLoading)
              /\ error' = error
              /\ enrichments' = enrichments \o enrichStart(merged)
              /\ ev' = [kind |-> "join", outcome |-> "success", threw |-> FALSE,
                        needsAuth |-> needsAuthReturned("success"),
                        page |-> Some(L.page),
                        callbacks |-> <<Call("onUpdate", "", isLoading)>>]
           \/ /\ ~authFailure(merged, L)
              /\ threw
              /\ isLoading' = loadingAfterLoad(isLoading)
              /\ error' = Some(MsgCallbackThrew)
              /\ enrichments' = enrichments
              /\ ev' = [kind |-> "join", outcome |-> "error", threw |-> TRUE,
                        needsAuth |-> needsAuthReturned("error"),
                        page |-> Some(L.page),
                        callbacks |-> <<Call("onUpdate", "", isLoading),
                                        Call("onUpdate", "", isLoading)>>]
        /\ totalPages' = totalPagesAfter(totalPages, loads[i])
        /\ UNCHANGED <<jwt, dropdown, totalResults>>
        /\ UNCHANGED directVars

\* The join under the dropdown: its onUpdate renders the list and its onError
\* shows the login prompt; neither keeps state.
LoadJoin == resumeLoad /\ UNCHANGED sidebarVars

----------------------------------------------------------------------------
(* enrich() resumes after each of its two awaits.                          *)

Range(seq) == {seq[i] : i \in 1..Len(seq)}

\* A mutant of notifies: the update is sent whatever the fetch returned.
notifiesAlways(fetched) == TRUE

\* if (Object.keys(observationsMap).length > 0)
notifies(fetched) == fetched # {}

\* After resolveCommentIds: every probe either found its observation or
\* failed (no entry in the mapping).  The handler's outcome is "nothing"
\* when enrich() returns here (no observation ids), "pending" when it
\* suspends again at fetchObservations.
\* A mutant of obsIdsToFetch: the ids are collected before the mapping is
\* applied.
obsIdsBeforeResolution(before, resolved) == getObservationIds(before)

\* const obsIds = this.store.getObservationIds(), read after the loop that
\* applies the comment mapping.
obsIdsToFetch(before, resolved) == getObservationIds(resolved)

EnrichResolved ==
    \E j \in 1..Len(enrichments) :
        LET E == enrichments[j] IN
        /\ E.pc = "resolve"
        /\ \E mapping \in [Range(E.commentIds) ->
                              {Nil} \cup {Some(t) : t \in RedirectTargets}] :
              LET resolved == applyCommentMapping(store, Range(E.mentions), mapping)
                  obsIds == obsIdsToFetch(store, resolved)
              IN /\ store' = resolved
                 /\ enrichments' =
                       IF obsIds = <<>> THEN RemoveAt(enrichments, j)
                       ELSE [enrichments EXCEPT ![j] =
                                [pc |-> "fetch", mentions |-> <<>>,
                                 commentIds |-> <<>>, obsIds |-> obsIds]]
                 /\ ev' = [Event("resolved") EXCEPT !.outcome =
                              IF obsIds = <<>> THEN "nothing" ELSE "pending"]
        /\ UNCHANGED <<isLoading, error, debugData, loads, jwt, dropdown>>
        /\ UNCHANGED <<totalPages, totalResults, notifPage, pageButtons>>
        /\ UNCHANGED directVars

\* After fetchObservations: the observations of the batches that succeeded.
\* The handler's outcome is "enriched" when at least one observation came
\* back, "nothing" otherwise.
finishEnrich ==
    \E j \in 1..Len(enrichments) :
        LET E == enrichments[j] IN
        /\ E.pc = "fetch"
        /\ \E fetched \in SUBSET Range(E.obsIds) :
              /\ store' = IF notifies(fetched)
                          THEN enrichWithObservations(store, fetched) ELSE store
              /\ ev' = [Event("fetched") EXCEPT
                           !.outcome = IF fetched # {} THEN "enriched" ELSE "nothing",
                           !.callbacks = IF notifies(fetched)
                                         THEN <<Call("onUpdate", "", isLoading)>>
                                         ELSE <<>>]
        /\ enrichments' = RemoveAt(enrichments, j)
        /\ UNCHANGED <<isLoading, error, debugData, loads, jwt, dropdown>>
        /\ UNCHANGED <<totalPages, totalResults>>
        /\ UNCHANGED directVars

\* The end of enrich() under the dropdown.
EnrichFetched == finishEnrich /\ UNCHANGED sidebarVars

----------------------------------------------------------------------------
(* The stored token.                                                       *)

\* refreshJWT() on a page load: getJWT(true) fetches and stores a token.
JwtRefresh ==
    /\ jwt = "none"
    /\ jwt' = "valid"
    /\ UNCHANGED <<store, isLoading, error, debugData, loads, enrichments, dropdown, ev>>
    /\ UNCHANGED <<totalPages, totalResults, notifPage, pageButtons>>
    /\ UNCHANGED directVars

\* Date.now() reaches the stored expiry: getStoredJWT returns null.
JwtExpire ==
    /\ jwt = "valid"
    /\ jwt' = "none"
    /\ UNCHANGED <<store, isLoading, error, debugData, loads, enrichments, dropdown, ev>>
    /\ UNCHANGED <<totalPages, totalResults, notifPage, pageButtons>>
    /\ UNCHANGED directVars

Init ==
    /\ CtlInit
    /\ totalResults = OnePage
    /\ sStore = <<>>
    /\ sEvents = {}
    /\ call = NoCall
    /\ BgInit

Next ==
    \/ Open
    \/ Close
    \/ SettleApi
    \/ SettleJson
    \/ SettleHtml
    \/ LoadJoin
    \/ EnrichResolved
    \/ EnrichFetched
    \/ JwtRefresh
    \/ JwtExpire

Spec == Init /\ [][Next]_vars

\* LoadJoin as it acts on `loads`: a load whose fetchers have settled leaves
\* the list.  Every step of Next that does this is a LoadJoin step, and
\* LoadJoin can run exactly when this can.
Resume ==
    \E i \in 1..Len(loads) : Settled(loads[i]) /\ loads' = RemoveAt(loads, i)

\* The event loop runs every continuation that is ready: a fetcher that was
\* started settles, and a load whose fetchers have settled resumes.
LiveSpec ==
    /\ Spec
    /\ WF_vars(SettleApi)
    /\ WF_vars(SettleJson)
    /\ WF_vars(SettleHtml)
    /\ WF_loads(Resume)

----------------------------------------------------------------------------
(* SidebarSpec: the sidebar's notifications panel and its pagination.       *)

\* The account's notifications fill three pages of the API.
ThreePages == 120

\* Most enrich() activations still suspended when the sidebar starts a load.
MaxOverlap == 1

\* updatePaginationUI(): each button is disabled at its end of the range.
updatePaginationUI(page, pages) ==
    [prevDisabled |-> page <= 1, nextDisabled |-> page >= pages]

invokesOnUpdate(e) == \E k \in 1..Len(e.callbacks) : e.callbacks[k].cb = "onUpdate"

\* The sidebar's onUpdate: updateBadges(); updatePaginationUI();
\* renderNotifications().  After a handler whose callback threw, the last
\* onUpdate either reached updatePaginationUI or did not.
buttonsAfter(e, buttons, page, pages) ==
    IF ~invokesOnUpdate(e) THEN {buttons}
    ELSE IF e.threw THEN {buttons, updatePaginationUI(page, pages)}
    ELSE {updatePaginationUI(page, pages)}

\* loadNotifications(): await notifController.load({ page: notifPage, perPage: 50 })
loadNotifications(page) ==
    \/ LoadNoop
    \/ Len(enrichments) < MaxOverlap /\ LoadStart(page)

\* The sidebar opened in a logged-in browser; the API reports no total (an
\* empty account) or three pages.
SidebarInit ==
    /\ CtlInit
    /\ jwt = "valid"
    /\ totalResults \in {0, ThreePages}
    /\ sStore = <<>>
    /\ sEvents = {}
    /\ call = NoCall
    /\ BgInit

\* A click on the Notifications tab.
ShowTab ==
    /\ loadNotifications(notifPage)
    /\ UNCHANGED <<dropdown, notifPage, pageButtons>>
    /\ UNCHANGED directVars

\* A click on notif-prev: if (notifPage > 1) { notifPage--; loadNotifications(); }
ClickPrev ==
    /\ ~pageButtons.prevDisabled
    /\ notifPage > 1
    /\ notifPage' = notifPage - 1
    /\ loadNotifications(notifPage - 1)
    /\ UNCHANGED <<dropdown, pageButtons>>
    /\ UNCHANGED directVars

\* A click on notif-next:
\* if (notifPage < notifController.totalPages) { notifPage++; loadNotifications(); }
ClickNext ==
    /\ ~pageButtons.nextDisabled
    /\ notifPage < totalPages
    /\ notifPage' = notifPage + 1
    /\ loadNotifications(notifPage + 1)
    /\ UNCHANGED <<dropdown, pageButtons>>
    /\ UNCHANGED directVars

\* The join under the sidebar.
SidebarJoin ==
    /\ resumeLoad
    /\ notifPage' = notifPage
    /\ pageButtons' \in buttonsAfter(ev', pageButtons, notifPage, totalPages')

\* The end of enrich() under the sidebar.
SidebarFetched ==
    /\ finishEnrich
    /\ notifPage' = notifPage
    /\ pageButtons' \in buttonsAfter(ev', pageButtons, notifPage, totalPages')

SidebarNext ==
    \/ ShowTab
    \/ ClickPrev
    \/ ClickNext
    \/ SettleApi
    \/ SettleJson
    \/ SettleHtml
    \/ SidebarJoin
    \/ EnrichResolved
    \/ SidebarFetched

SidebarSpec == SidebarInit /\ [][SidebarNext]_vars

----------------------------------------------------------------------------
(* StoreSpec: a NotificationStore exercised directly.                      *)

\* Longest list handed to one add() call.
MaxList == 2

\* The records the Store is exercised with, all by bob on observation 100:
\* mentions from every source at two times of one bucket (one dedup key,
\* three ranks, two records per rank), mentions without a timestamp from the
\* two session sources, and one comment.
Universe ==
    {Notif(<<src, "mention", t>>, src, "mention", "null", t, ObsId(100), ObsUrl(100), "bob")
        : src \in {"api_v1", "json", "html"}, t \in {Some(T0), Some(T4)}}
    \cup
    {Notif(<<src, "mention", Nil>>, src, "mention", "null", Nil, ObsId(100), ObsUrl(100), "bob")
        : src \in {"json", "html"}}
    \cup
    {Notif(<<"api_v1", "comment", Some(T0)>>, "api_v1", "comment", "null", Some(T0),
           ObsId(100), ObsUrl(100), "bob")}

RecLists == UNION {[1..n -> Universe] : n \in 0..MaxList}

StoreInit ==
    /\ sStore = <<>>
    /\ sEvents = {}
    /\ CtlInit
    /\ totalResults = OnePage
    /\ call = NoCall
    /\ BgInit

StoreAdd ==
    \E R \in RecLists :
        /\ sStore' = add(sStore, R)
        /\ sEvents' = addEvents(sStore, R)
        /\ UNCHANGED <<ctlVars, call, bgVars>>

StoreClear ==
    /\ sStore' = clear(sStore)
    /\ sEvents' = {}
    /\ UNCHANGED <<ctlVars, call, bgVars>>

StoreNext == StoreAdd \/ StoreClear

StoreSpec == StoreInit /\ [][StoreNext]_vars

----------------------------------------------------------------------------
(* NormSpec: a NotificationStore fed through createNotification and        *)
(* driven directly through its enrichment methods and queries.             *)

\* data.field || fallback, for a string field given as Nil (absent) or
\* Some(value): the empty string is falsy too.
orDefault(v, fallback) == IF v = Nil \/ v = Some("") THEN fallback ELSE v[1]

\* data.viewed ?? null, viewed given as "undefined", "null", "true", "false".
nullish(v) == IF v = "undefined" THEN "null" ELSE v

\* parseDate's multipliers table.
multipliers(unit) ==
    CASE unit = "second" -> 1000
      [] unit = "minute" -> 60 * 1000
      [] unit = "hour" -> 60 * 60 * 1000

\* A raw createdAt value.
\*   "none"     undefined, null or ''          "garbage"  any other text
\*   "date"     a Date of `ms`                 "iso"      text new Date() parses to `ms`
\*   "relative" "<amount> <unit>s ago", parsed when the clock reads `now`
RawTime(kind, ms, amount, unit, now) ==
    [kind |-> kind, ms |-> ms, amount |-> amount, unit |-> unit, now |-> now]

\* createdAt: data.createdAt instanceof Date ? data.createdAt : parseDate(...)
parseDate(value) ==
    CASE value.kind \in {"date", "iso"} -> Some(value.ms)
      [] value.kind = "relative" -> Some(value.now - value.amount * multipliers(value.unit))
      [] OTHER -> Nil

\* The raw data object handed to createNotification.  observationId and
\* observationUrl are given in every input.
Raw(id, source, category, viewed, createdAt, observationId, observationUrl, login) ==
    [id |-> id, source |-> source, category |-> category, viewed |-> viewed,
     createdAt |-> createdAt, observationId |-> observationId,
     observationUrl |-> observationUrl, login |-> login]

createNotification(data) ==
    Notif(data.id,
          orDefault(data.source, "unknown"),
          orDefault(data.category, "identification"),
          nullish(data.viewed),
          parseDate(data.createdAt),
          data.observationId,
          data.observationUrl,
          orDefault(data.login, "unknown"))

\* The raw inputs the Store is fed with.
\*  1-3  one comment by bob on observation 100 as the three sources report
\*       it: api_v1 at 12:00, json at 12:04, html at 12:11;
\*  4-5  two html mentions that carry only a /comments/ link, without a
\*       parsable time;
\*  6    an api_v1 record without a category, "8 minutes ago" at 12:11;
\*  7    a record with a category that is none of the three;
\*  8    a record with an empty category, no source and no user login.
\*  9-12 four mentions on observation 100 within one bucket: by bob, by
\*       amy, and two (json, html) whose user login is missing or empty.
RawInputs ==
    { Raw("api_v1_1", Some("api_v1"), Some("comment"), "false",
          RawTime("date", T0, 0, "second", 0), ObsId(100), ObsUrl(100), Some("bob")),
      Raw("json_8", Some("json"), Some("comment"), "undefined",
          RawTime("iso", T4, 0, "second", 0), ObsId(100), ObsUrl(100), Some("bob")),
      Raw("html_1_100", Some("html"), Some("comment"), "null",
          RawTime("iso", T11, 0, "second", 0), ObsId(100), ObsUrl(100), Some("bob")),
      Raw("html_0_comment_5", Some("html"), Some("mention"), "null",
          RawTime("none", 0, 0, "second", 0), PendingId(5), CommentUrl(5), Some("bob")),
      Raw("html_2_comment_6", Some("html"), Some("mention"), "null",
          RawTime("garbage", 0, 0, "second", 0), PendingId(6), CommentUrl(6), Some("bob")),
      Raw("api_v1_3", Some("api_v1"), Nil, "true",
          RawTime("relative", 0, 8, "minute", T11), ObsId(200), ObsUrl(200), Some("amy")),
      Raw("json_9", Some("json"), Some("review"), "false",
          RawTime("date", T11, 0, "second", 0), ObsId(200), ObsUrl(200), Some("amy")),
      Raw("x_1", Nil, Some(""), "undefined",
          RawTime("none", 0, 0, "second", 0), ObsId(200), ObsUrl(200), Nil),
      Raw("json_7", Some("json"), Some("mention"), "false",
          RawTime("iso", T0, 0, "second", 0), ObsId(100), ObsUrl(100), Some("bob")),
      Raw("json_10", Some("json"), Some("mention"), "false",
          RawTime("iso", T4, 0, "second", 0), ObsId(100), ObsUrl(100), Some("amy")),
      Raw("json_11", Some("json"), Some("mention"), "false",
          RawTime("iso", T0, 0, "second", 0), ObsId(100), ObsUrl(100), Nil),
      Raw("html_3_100", Some("html"), Some("mention"), "null",
          RawTime("iso", T4, 0, "second", 0), ObsId(100), ObsUrl(100), Some("")) }

\* Most records the Store holds at once.
MaxStore == 3

\* The comment ids a mapping can have entries for, and the observations an
\* observations map can have entries for.
CommentIds == {5, 6}

ObservationIds == {100, 200}

CommentMappings == [CommentIds -> {Nil} \cup {Some(t) : t \in RedirectTargets}]

\* NotificationStore.getPendingCommentIds
getPendingCommentIds(s) ==
    LET IsPending(n) == n.observationId.prefix = "pending_comment_"
        pending == SelectSeq(values(s), IsPending)
    IN [i \in 1..Len(pending) |-> pending[i].observationId.num]

\* NotificationStore.resolveCommentIds(mapping): `mapping` gives Nil (no
\* entry) or Some(observation id) per comment id.
resolveCommentIds(s, mapping) ==
    [i \in 1..Len(s) |->
        LET notif == s[i].rec IN
        IF /\ notif.observationId.prefix = "pending_comment_"
           /\ notif.observationId.num \in DOMAIN mapping
           /\ mapping[notif.observationId.num] # Nil
        THEN [s[i] EXCEPT !.rec.observationId = ObsId(mapping[notif.observationId.num][1]),
                          !.rec.observationUrl =
                              AnchoredUrl(mapping[notif.observationId.num][1],
                                          notif.observationId.num)]
        ELSE s[i]]

\* A mutant of getUnread: every record that is not known to be read.
getUnreadFalsy(s) ==
    LET NotRead(n) == n.viewed # "true" IN SelectSeq(getAll(s), NotRead)

\* getAll().filter(n => n.viewed === false)
getUnread(s) ==
    LET Unread(n) == n.viewed = "false" IN SelectSeq(getAll(s), Unread)

\* getAll().filter(n => n.viewed === true)
getRead(s) ==
    LET Read(n) == n.viewed = "true" IN SelectSeq(getAll(s), Read)

NormInit == StoreInit

\* createNotification, then store.add([notification])
NormAdd ==
    \E data \in RawInputs :
        /\ Len(sStore) < MaxStore
        /\ sStore' = add(sStore, <<createNotification(data)>>)
        /\ sEvents' = addEvents(sStore, <<createNotification(data)>>)
        /\ UNCHANGED <<ctlVars, call, bgVars>>

\* store.resolveCommentIds(mapping)
NormResolve ==
    \E mapping \in CommentMappings :
        /\ sStore # <<>>
        /\ sStore' = resolveCommentIds(sStore, mapping)
        /\ sEvents' = {"resolved"}
        /\ UNCHANGED <<ctlVars, call, bgVars>>

\* store.enrichWithObservations(observationsMap)
NormEnrich ==
    \E fetched \in SUBSET ObservationIds :
        /\ sStore # <<>>
        /\ sStore' = enrichWithObservations(sStore, fetched)
        /\ sEvents' = {"enriched"}
        /\ UNCHANGED <<ctlVars, call, bgVars>>

NormNext == NormAdd \/ NormResolve \/ NormEnrich \/ StoreClear

NormSpec == NormInit /\ [][NormNext]_vars

----------------------------------------------------------------------------
(* The fetch helpers called directly: the two fetchers' normalization of   *)
(* a raw payload, and the module functions resolveCommentIds and           *)
(* fetchObservations.  `call` holds the last call:                         *)
(*   fn        which helper ran                                            *)
(*   input     its argument                                                *)
(*   outcomes  what the network answered, request by request               *)
(*   attempted the requests it issued, in order                            *)
(*   result    what the returned promise settled to                        *)

\* Longest raw payload and longest list of comment ids handed to a helper.
MaxBatch == 2

\* All sequences over S of length at most n.
SeqsUpTo(S, n) == UNION {[1..k -> S] : k \in 0..n}

\* A raw item of the new_updates.json payload.  A field that is missing is
\* Nil; `comment` is the nested comment object, given by its user's login
\* (Some("") when it has none), `login` is raw.user.login.
JsonItem(id, notification, notifier_type, comment, viewed, created_at, resource_id, login) ==
    [id |-> id, notification |-> notification, notifier_type |-> notifier_type,
     comment |-> comment, viewed |-> viewed, created_at |-> created_at,
     resource_id |-> resource_id, login |-> login]

\* String(undefined || '') and `.../observations/${undefined}`: an id that
\* is the empty string and a URL in which no observation id can be found.
NoObsId == [prefix |-> "", num |-> 0]

NoObsUrl == [path |-> "observations/undefined", num |-> 0, anchor |-> Nil]

\* The callback JsonFetcher.fetch maps over the payload, for an item that is
\* an object.
jsonData(raw) ==
    LET login == IF raw.comment # Nil /\ raw.comment # Some("")
                 THEN raw.comment ELSE raw.login
        category == IF raw.notification = Some("mention") THEN "mention"
                    ELSE IF raw.notifier_type = Some("Comment") \/ raw.comment # Nil
                         THEN "comment"
                         ELSE "identification"
    IN Raw(<<"json_", raw.id>>, Some("json"), Some(category),
           IF raw.viewed = "true" THEN "true" ELSE "false",
           raw.created_at,
           IF raw.resource_id = Nil THEN NoObsId ELSE ObsId(raw.resource_id[1]),
           IF raw.resource_id = Nil THEN NoObsUrl ELSE ObsUrl(raw.resource_id[1]),
           Some(orDefault(login, "unknown")))

\* JsonFetcher.fetch after response.json(): (data || []).map(...).  An item
\* that is null makes the callback read a property of null; the TypeError
\* leaves map and rejects the promise fetch returned.
jsonFetch(data) ==
    IF \E i \in 1..Len(data) : data[i] = Nil
    THEN Rejected(<<"TypeError">>)
    ELSE Fulfilled([i \in 1..Len(data) |-> createNotification(jsonData(data[i][1]))])

\* The callback ApiV1Fetcher.fetch maps over response.notifications, for an
\* item that is an object: the item's fields are passed on under the id
\* `api_v1_${raw.id}` and the source 'api_v1'.
apiData(raw) ==
    Raw(<<"api_v1_", raw.id>>, Some("api_v1"), raw.category, raw.viewed, raw.createdAt,
        raw.observationId, raw.observationUrl, raw.login)

\* ApiV1Fetcher.fetch after sendMessage answered.
apiFetch(notifications) ==
    IF \E i \in 1..Len(notifications) : notifications[i] = Nil
    THEN Rejected(<<"TypeError">>)
    ELSE Fulfilled([i \in 1..Len(notifications) |->
                        createNotification(apiData(notifications[i][1]))])

\* The raw items a payload is made of: null, a complete mention, a comment
\* whose user is nested in the comment object, an object with every field
\* missing.
JsonItems ==
    { Nil,
      Some(JsonItem(Some("7"), Some("mention"), Some("Comment"), Nil, "false",
                    RawTime("iso", T0, 0, "second", 0), Some(100), Some("bob"))),
      Some(JsonItem(Some("8"), Some("activity"), Nil, Some("amy"), "true",
                    RawTime("iso", T4, 0, "second", 0), Some(200), Nil)),
      Some(JsonItem(Nil, Nil, Nil, Nil, "undefined",
                    RawTime("none", 0, 0, "second", 0), Nil, Nil)) }

ApiItems ==
    { Nil,
      Some(Raw(Some("1"), Nil, Some("comment"), "false",
               RawTime("iso", T0, 0, "second", 0), ObsId(100), ObsUrl(100), Some("bob"))),
      Some(Raw(Nil, Nil, Nil, "undefined",
               RawTime("none", 0, 0, "second", 0), NoObsId, NoObsUrl, Nil)) }

\* fetch() of one /comments/<id> probe: the request throws, or answers with
\* response.url the URL the redirects ended at.
ProbeThrows == [threw |-> TRUE, url |-> CommentUrl(0)]

ProbeEndsAt(url) == [threw |-> FALSE, url |-> url]

ProbeOutcomes(commentId) ==
    {ProbeThrows, ProbeEndsAt(CommentUrl(commentId))}
        \cup {ProbeEndsAt(AnchoredUrl(t, commentId)) : t \in ObservationIds}

\* A mutant of probe: the first probe that throws ends the loop.
probeAborting(acc, commentId, outcome) ==
    IF acc.aborted \/ outcome.threw
    THEN [acc EXCEPT !.aborted = TRUE]
    ELSE [mapping |->
              IF urlObservationId(outcome.url) = Nil THEN acc.mapping
              ELSE [c \in DOMAIN acc.mapping \cup {commentId} |->
                       IF c = commentId THEN outcome.url.num ELSE acc.mapping[c]],
          attempted |-> Append(acc.attempted, commentId),
          aborted |-> FALSE]

\* One pass of resolveCommentIds' loop body over commentIds[i]: try { fetch;
\* match; mapping[commentId] = obsMatch[1] } catch { }.  `acc` is the
\* mapping so far (a function from comment ids to observation ids) and the
\* probes issued so far.
probe(acc, commentId, outcome) ==
    LET obsMatch == IF outcome.threw THEN Nil ELSE urlObservationId(outcome.url)
    IN [mapping |->
            IF obsMatch = Nil THEN acc.mapping
            ELSE [c \in DOMAIN acc.mapping \cup {commentId} |->
                     IF c = commentId THEN obsMatch[1] ELSE acc.mapping[c]],
        attempted |-> Append(acc.attempted, commentId),
        aborted |-> FALSE]

RECURSIVE probeAll(_, _, _)
probeAll(commentIds, outcomes, n) ==
    IF n = 0
    THEN [mapping |-> <<>>, attempted |-> <<>>, aborted |-> FALSE]
    ELSE probe(probeAll(commentIds, outcomes, n - 1), commentIds[n], outcomes[n])

\* resolveCommentIds(commentIds), the module function: the mapping it
\* returns and the probes it issued.
resolveCommentIdsByProbing(commentIds, outcomes) ==
    probeAll(commentIds, outcomes, Len(commentIds))

\* const batchSize = 30
batchSize == 30

\* ids.slice(from, to), zero-based and end-exclusive.
slice(ids, from, to) ==
    SubSeq(ids, from + 1, IF to < Len(ids) THEN to ELSE Len(ids))

\* fetch() of one batch: the request throws, answers non-OK, answers OK
\* without `results`, or answers OK with the observations asked for.
BatchOutcomes == {"throws", "notOk", "noResults", "ok"}

\* A mutant of fetchBatch: a failed batch ends the loop.
fetchBatchAborting(acc, ids, i, outcome) ==
    IF acc.aborted \/ outcome \in {"throws", "notOk"}
    THEN [acc EXCEPT !.aborted = TRUE]
    ELSE [observationsMap |->
              IF outcome = "ok"
              THEN [o \in DOMAIN acc.observationsMap
                              \cup Range(slice(ids, i, i + batchSize)) |-> ObsData(o)]
              ELSE acc.observationsMap,
          attempted |-> Append(acc.attempted, slice(ids, i, i + batchSize)),
          aborted |-> FALSE]

\* One pass of fetchObservations' loop at offset i, answered by `outcome`.
fetchBatch(acc, ids, i, outcome) ==
    LET batch == slice(ids, i, i + batchSize)
    IN [observationsMap |->
            IF outcome = "ok"
            THEN [o \in DOMAIN acc.observationsMap \cup Range(batch) |-> ObsData(o)]
            ELSE acc.observationsMap,
        attempted |-> Append(acc.attempted, batch),
        aborted |-> FALSE]

\* The number of passes of for (i = 0; i < ids.length; i += batchSize).
passes(ids) == (Len(ids) + batchSize - 1) \div batchSize

RECURSIVE fetchBatches(_, _, _)
fetchBatches(ids, outcomes, n) ==
    IF n = 0
    THEN [observationsMap |-> <<>>, attempted |-> <<>>, aborted |-> FALSE]
    ELSE fetchBatch(fetchBatches(ids, outcomes, n - 1), ids, (n - 1) * batchSize,
                    outcomes[n])

\* fetchObservations(ids): the map it returns and the batches it requested.
fetchObservations(ids, outcomes) == fetchBatches(ids, outcomes, passes(ids))

\* The id lists fetchObservations is called with: none, one, a full batch,
\* one more than a batch, one more than two batches.
IdLists ==
    {[i \in 1..n |-> 1000 + i] :
        n \in {0, 1, batchSize, batchSize + 1, 2 * batchSize + 1}}

Called(fn, input, outcomes, attempted, result) ==
    [fn |-> fn, input |-> input, outcomes |-> outcomes, attempted |-> attempted,
     result |-> result]

\* No token is stored: the helpers need none.
FetchInit ==
    /\ StoreInit
    /\ jwt = "none"

\* new JsonFetcher().fetch() answered by the payload `data`
CallJsonFetch ==
    \E data \in SeqsUpTo(JsonItems, MaxBatch) :
        /\ call' = Called("JsonFetcher.fetch", data, <<>>, <<>>, jsonFetch(data))
        /\ UNCHANGED <<storeVars, ctlVars, bgVars>>

\* new ApiV1Fetcher().fetch() answered with response.notifications
CallApiFetch ==
    \E notifications \in SeqsUpTo(ApiItems, MaxBatch) :
        /\ call' = Called("ApiV1Fetcher.fetch", notifications, <<>>, <<>>,
                          apiFetch(notifications))
        /\ UNCHANGED <<storeVars, ctlVars, bgVars>>

\* resolveCommentIds(commentIds)
CallResolveCommentIds ==
    \E commentIds \in SeqsUpTo(CommentIds, MaxBatch) :
        \E outcomes \in [1..Len(commentIds) ->
                            UNION {ProbeOutcomes(c) : c \in CommentIds}] :
            /\ \A i \in 1..Len(commentIds) : outcomes[i] \in ProbeOutcomes(commentIds[i])
            /\ LET done == resolveCommentIdsByProbing(commentIds, outcomes)
               IN call' = Called("resolveCommentIds", commentIds, outcomes,
                                 done.attempted, done.mapping)
            /\ UNCHANGED <<storeVars, ctlVars, bgVars>>

\* fetchObservations(ids)
CallFetchObservations ==
    \E ids \in IdLists :
        \E outcomes \in [1..passes(ids) -> BatchOutcomes] :
            /\ LET done == fetchObservations(ids, outcomes)
               IN call' = Called("fetchObservations", ids, outcomes,
                                 done.attempted, done.observationsMap)
            /\ UNCHANGED <<storeVars, ctlVars, bgVars>>

\* The records getNotificationKey is compared on: every combination of
\* two observation ids, two categories, three logins (one hyphenated, one
\* empty, one that reads 'unknown') and four timestamps (two of one bucket,
\* one of another, none).
KeyInputs ==
    {Notif("k", "json", c, "null", t, o, ObsUrl(100), u) :
        o \in {ObsId(100), PendingId(5)},
        c \in {"mention", "comment"},
        u \in {"ann-lee", "", "unknown"},
        t \in {Some(T0), Some(T4), Some(T11), Nil}}

\* getNotificationKey(notif).  `call` keeps the record and the key of the
\* call before it as well, as add() keeps the keys it computed earlier in
\* its Map and compares the incoming record's key with them.
CallGetNotificationKey ==
    \E notif \in KeyInputs :
        /\ call' = IF call.fn = "getNotificationKey"
                   THEN Called("getNotificationKey",
                               <<call.input[Len(call.input)], notif>>, <<>>, <<>>,
                               <<call.result[Len(call.result)],
                                 getNotificationKey(notif)>>)
                   ELSE Called("getNotificationKey", <<notif>>, <<>>, <<>>,
                               <<getNotificationKey(notif)>>)
        /\ UNCHANGED <<storeVars, ctlVars, bgVars>>

FetchNext ==
    \/ CallJsonFetch
    \/ CallApiFetch
    \/ CallResolveCommentIds
    \/ CallFetchObservations
    \/ CallGetNotificationKey

FetchSpec == FetchInit /\ [][FetchNext]_vars

----------------------------------------------------------------------------
(* AuthSpec: the stored token and NotificationsAPI.apiRequest.             *)

\* JWT_LIFETIME_MS (23 hours), as two ticks of the clock.
JWT_LIFETIME == 2

\* The clock stops here.
MaxClock == 3

\* Most tokens the iNaturalist session hands out.
MaxTokens == 2

\* Most API requests awaiting their response at once.
MaxRequests == 2

\* A mutant of getStoredJWT: the expiry is not compared with the clock.
getStoredJWTAnyAge(storage, t) == storage.jwt

\* iNatAuth.getStoredJWT: jwt && expiry && Date.now() < expiry ? jwt : null
getStoredJWT(storage, t) ==
    IF storage.jwt # Nil /\ storage.expiry # Nil /\ t < storage.expiry[1]
    THEN storage.jwt ELSE Nil

\* iNatAuth.storeJWT: both keys in one storage.local.set
storeJWT(storage, token, t) ==
    [storage EXCEPT !.jwt = Some(token), !.expiry = Some(t + JWT_LIFETIME)]

\* iNatAuth.clearJWT: both keys in one storage.local.remove
clearJWT(storage) == [storage EXCEPT !.jwt = Nil, !.expiry = Nil]

AuthInit ==
    /\ StoreInit
    /\ jwt = "none"

\* Time passes.
Tick ==
    /\ clock < MaxClock
    /\ clock' = clock + 1
    /\ UNCHANGED <<local, tasks, log>>
    /\ UNCHANGED <<storeVars, ctlVars, call>>

\* getJWT(true) in a content script on inaturalist.org: the token of the
\* session is fetched and stored.
FetchAndStoreJWT ==
    /\ log.tokens < MaxTokens
    /\ local' = storeJWT(local, log.tokens + 1, clock)
    /\ log' = [log EXCEPT !.tokens = @ + 1, !.cleared = FALSE,
                          !.last = [kind |-> "store", outcome |-> "stored"]]
    /\ UNCHANGED <<clock, tasks>>
    /\ UNCHANGED <<storeVars, ctlVars, call>>

\* apiRequest up to its fetch: without a token it throws 'Not authenticated'
\* and sends nothing, with one it sends the request and suspends.
ApiRequest ==
    LET token == getStoredJWT(local, clock)
        made(outcome, sent) ==
            [kind |-> "request", afterClear |-> log.cleared, expiry |-> local.expiry,
             at |-> clock, outcome |-> outcome, sent |-> sent]
    IN
    /\ Len(tasks) < MaxRequests
    /\ IF token = Nil
       THEN /\ tasks' = tasks
            /\ log' = [log EXCEPT !.last = made("notAuthenticated", FALSE)]
       ELSE /\ tasks' = Append(tasks, [kind |-> "apiRequest", jwt |-> token[1]])
            /\ log' = [log EXCEPT !.last = made("sent", TRUE)]
    /\ UNCHANGED <<local, clock>>
    /\ UNCHANGED <<storeVars, ctlVars, call>>

\* apiRequest after its fetch: a 401 clears the stored token and throws
\* 'Session expired', another failure throws 'API error', success returns
\* the response.
ApiResponse ==
    \E i \in 1..Len(tasks), status \in {200, 401, 500} :
        /\ tasks[i].kind = "apiRequest"
        /\ tasks' = RemoveAt(tasks, i)
        /\ IF status = 401
           THEN /\ local' = clearJWT(local)
                /\ log' = [log EXCEPT !.cleared = TRUE,
                              !.last = [kind |-> "response", outcome |-> "sessionExpired"]]
           ELSE /\ local' = local
                /\ log' = [log EXCEPT !.last =
                              [kind |-> "response",
                               outcome |-> IF status = 200 THEN "ok" ELSE "apiError"]]
        /\ UNCHANGED clock
        /\ UNCHANGED <<storeVars, ctlVars, call>>

AuthNext ==
    \/ Tick
    \/ FetchAndStoreJWT
    \/ ApiRequest
    \/ ApiResponse

AuthSpec == AuthInit /\ [][AuthNext]_vars

----------------------------------------------------------------------------
(* StorageSpec: the background script handling storage messages.           *)

\* Most items generateId() names.
MaxItems == 2

\* Most handlers suspended at getData at once.
MaxTasks == 2

\* The pages a message can name: two observations and a page that is not an
\* observation.
TodoUrls == {ObsUrl(100), CommentUrl(5)}

ResearchUrls == {ObsUrl(100), ObsUrl(200)}

\* url.match(/inaturalist\.org\/observations\/(\d+)/): null when no match.
extractObservationId(url) == IF url.path = "observations" THEN Some(url.num) ELSE Nil

\* The messages the listener passes to a Storage method that reads the data
\* first.
StorageMessages ==
    {[action |-> "addTodo", url |-> u, id |-> 0, note |-> ""] : u \in TodoUrls}
    \cup
    {[action |-> "addResearch", url |-> u, id |-> 0, note |-> ""] : u \in ResearchUrls}
    \cup
    {[action |-> a, url |-> Nil, id |-> 1, note |-> IF a = "updateNote" THEN "seen" ELSE ""] :
        a \in {"markComplete", "updateNote", "deleteItem"}}

\* A backup file: not a backup at all, or one without items.
Backups == {Nil, Some(<<>>)}

\* data.items.some(item => item.observationId === observationId)
alreadySaved(items, observationId) ==
    \E k \in 1..Len(items) : items[k].observationId = observationId

\* data.items.findIndex(i => i.id === id), 0 when there is none.
findIndex(items, id) ==
    IF \E k \in 1..Len(items) : items[k].id = id
    THEN CHOOSE k \in 1..Len(items) :
            items[k].id = id /\ \A j \in 1..(k - 1) : items[j].id # id
    ELSE 0

\* The item addTodo and addResearch build; a research item has no
\* `completed`.
newItem(id, type, observationId, note) ==
    [id |-> id, type |-> type, observationId |-> observationId, note |-> note,
     completed |-> IF type = "todo" THEN "false" ELSE "undefined"]

Returned(action, outcome) == [kind |-> action, outcome |-> outcome]

StorageInit == AuthInit

\* The listener dispatches a message to its Storage method, which suspends
\* at `await this.getData()` with the data read from storage.local.
GetData ==
    \E message \in StorageMessages :
        /\ Len(tasks) < MaxTasks
        /\ tasks' = Append(tasks, [kind |-> message.action, message |-> message,
                                   data |-> local.items])
        /\ UNCHANGED <<local, clock, log>>
        /\ UNCHANGED <<storeVars, ctlVars, call>>

\* addTodo / addResearch after getData: validate, push the item, saveData,
\* return the item.
addItem(i, type) ==
    LET T == tasks[i]
        observationId == extractObservationId(T.message.url)
    IN
    /\ tasks' = RemoveAt(tasks, i)
    /\ IF observationId = Nil \/ alreadySaved(T.data, observationId[1])
       THEN /\ local' = local
            /\ log' = [log EXCEPT !.last = Returned(T.kind, "threw")]
       ELSE /\ log.ids < MaxItems
            /\ local' = [local EXCEPT !.items =
                            Append(T.data, newItem(log.ids + 1, type, observationId[1],
                                                   T.message.note))]
            /\ log' = [log EXCEPT !.last = Returned(T.kind, "returned"),
                                  !.ids = @ + 1,
                                  !.saved = @ \cup {log.ids + 1}]
    /\ UNCHANGED clock
    /\ UNCHANGED <<storeVars, ctlVars, call>>

AddTodo == \E i \in 1..Len(tasks) : tasks[i].kind = "addTodo" /\ addItem(i, "todo")

AddResearch ==
    \E i \in 1..Len(tasks) : tasks[i].kind = "addResearch" /\ addItem(i, "research")

\* markComplete after getData.
MarkComplete ==
    \E i \in 1..Len(tasks) :
        LET T == tasks[i]
            k == findIndex(T.data, T.message.id)
        IN
        /\ T.kind = "markComplete"
        /\ tasks' = RemoveAt(tasks, i)
        /\ IF k = 0 \/ T.data[k].type # "todo"
           THEN /\ local' = local
                /\ log' = [log EXCEPT !.last = Returned(T.kind, "threw")]
           ELSE /\ local' = [local EXCEPT !.items =
                                [T.data EXCEPT ![k].completed = "true"]]
                /\ log' = [log EXCEPT !.last = Returned(T.kind, "returned")]
        /\ UNCHANGED clock
        /\ UNCHANGED <<storeVars, ctlVars, call>>

\* updateNote after getData.
UpdateNote ==
    \E i \in 1..Len(tasks) :
        LET T == tasks[i]
            k == findIndex(T.data, T.message.id)
        IN
        /\ T.kind = "updateNote"
        /\ tasks' = RemoveAt(tasks, i)
        /\ IF k = 0
           THEN /\ local' = local
                /\ log' = [log EXCEPT !.last = Returned(T.kind, "threw")]
           ELSE /\ local' = [local EXCEPT !.items =
                                [T.data EXCEPT ![k].note = T.message.note]]
                /\ log' = [log EXCEPT !.last = Returned(T.kind, "returned")]
        /\ UNCHANGED clock
        /\ UNCHANGED <<storeVars, ctlVars, call>>

\* deleteItem after getData.
DeleteItem ==
    \E i \in 1..Len(tasks) :
        LET T == tasks[i]
            k == findIndex(T.data, T.message.id)
        IN
        /\ T.kind = "deleteItem"
        /\ tasks' = RemoveAt(tasks, i)
        /\ IF k = 0
           THEN /\ local' = local
                /\ log' = [log EXCEPT !.last = Returned(T.kind, "threw")]
           ELSE /\ local' = [local EXCEPT !.items = RemoveAt(T.data, k)]
                /\ log' = [log EXCEPT !.last = Returned(T.kind, "returned"),
                                      !.saved = @ \ {T.message.id}]
        /\ UNCHANGED clock
        /\ UNCHANGED <<storeVars, ctlVars, call>>

\* importData: a file that is not a backup throws, a backup replaces the
\* data.
ImportData ==
    \E imported \in Backups :
        /\ IF imported = Nil
           THEN /\ local' = local
                /\ log' = [log EXCEPT !.last = Returned("importData", "threw")]
           ELSE /\ local' = [local EXCEPT !.items = imported[1]]
                /\ log' = [log EXCEPT !.last = Returned("importData", "returned"),
                                      !.saved = {}]
        /\ UNCHANGED <<clock, tasks>>
        /\ UNCHANGED <<storeVars, ctlVars, call>>

StorageNext ==
    \/ GetData
    \/ AddTodo
    \/ AddResearch
    \/ MarkComplete
    \/ UpdateNote
    \/ DeleteItem
    \/ ImportData

StorageSpec == StorageInit /\ [][StorageNext]_vars

----------------------------------------------------------------------------
(* Claims about the Store's merge algebra, checked under StoreSpec.        *)

\* The entries of s stored under key k.
EntriesAt(s, k) == {i \in 1..Len(s) : s[i].key = k}

\* The four ways add() can process the two records a and b.
BothOrders(s, a, b) ==
    {add(add(s, <<a>>), <<b>>), add(add(s, <<b>>), <<a>>),
     add(s, <<a, b>>), add(s, <<b, a>>)}

\* C2 - Rank monotonicity: for any two records a, b with the same dedup key
\* and rank(a) > rank(b), once add has processed both - in either order, in
\* one call or in two - the Store holds exactly one entry under that key, it
\* is not the lower-ranked b, it ranks at least as high as a, and it is a
\* itself unless the Store already held a record of a's rank or higher.
C2_RankMonotonicity ==
    \A a, b \in Universe :
        (/\ getNotificationKey(a) = getNotificationKey(b)
         /\ sourcePriority(a.source) > sourcePriority(b.source))
        => \A t \in BothOrders(sStore, a, b) :
              LET k == getNotificationKey(a) IN
              /\ Cardinality(EntriesAt(t, k)) = 1
              /\ MapGet(t, k) # b
              /\ sourcePriority(MapGet(t, k).source) >= sourcePriority(a.source)
              /\ (\/ ~MapHas(sStore, k)
                  \/ sourcePriority(MapGet(sStore, k).source) < sourcePriority(a.source))
                 => MapGet(t, k) = a

\* C2 witness: one add() call both replaced a lower-ranked stored record and
\* discarded a lower-ranked incoming one, and an api_v1 record survives.
C2_Witness ==
    /\ {"replaced", "discarded"} \subseteq sEvents
    /\ \E r \in StoreRecs(sStore) : r.source = "api_v1"

\* C3 - Idempotent merge: for every Store state and every list R,
\* add(R) followed by add(R) leaves the same entries as a single add(R).
C3_IdempotentMerge ==
    \A R \in RecLists : add(add(sStore, R), R) = add(sStore, R)

\* C3 witness: a non-empty Store and a list whose add changes it (inserting
\* one record and replacing another) and whose second add changes nothing.
C3_Witness ==
    /\ sStore # <<>>
    /\ \E R \in RecLists :
          /\ addEvents(sStore, R) = {"inserted", "replaced"}
          /\ add(sStore, R) # sStore
          /\ add(add(sStore, R), R) = add(sStore, R)

----------------------------------------------------------------------------
(* Claims about the Controller session, checked under Spec and LiveSpec.   *)

\* The settled results of the load that joined last.
Results == debugData[1]

JustJoined == ev.kind = "join" /\ debugData # Nil

Invoked(cb) == \E i \in 1..Len(ev.callbacks) : ev.callbacks[i].cb = cb

\* The records the join hands to store.add, per source.
Offered ==
    (IF Results.apiResult.status = "fulfilled"
     THEN Range(Results.apiResult.value) ELSE {})
    \cup
    (IF Results.jsonResult.status = "fulfilled"
     THEN {n \in Range(Results.jsonResult.value) : IsMention(n)} ELSE {})
    \cup
    (IF Results.htmlResult.status = "fulfilled"
     THEN {n \in Range(Results.htmlResult.value) : IsMention(n)} ELSE {})

\* The Structured-API fetch failed for want of a valid token: none stored,
\* or the stored one answered with 401.
AuthClassFailure(result) ==
    result.status = "rejected" /\ result.reason \in {MsgNotAuthenticated, MsgSessionExpired}

\* C1 - Single-flight: at most one load is in flight; a load() call made
\* while one is in flight (the dropdown reopened during loading) changes
\* neither the Store nor the in-flight fetches nor any Controller field and
\* invokes no callback; and the join of the in-flight load leaves the Store
\* holding that load's results merged once into the cleared Store.
C1_SingleFlight ==
    /\ [](Len(loads) <= 1 /\ (isLoading <=> Len(loads) = 1))
    /\ [][(~dropdown /\ dropdown' /\ isLoading)
            => /\ UNCHANGED <<store, loads, isLoading, error, debugData, enrichments>>
               /\ ev'.callbacks = <<>>]_vars
    /\ [][(Len(loads') < Len(loads))
            => store' = mergeResults(<<>>, loads[1])]_vars

\* C1 witness: load() was called again while the first load was in flight
\* with one of its fetchers already settled.
C1_Witness ==
    /\ ev.kind = "noop"
    /\ Len(loads) = 1
    /\ loads[1].html.status = "fulfilled"
    /\ loads[1].api.status = "pending"

\* C4 - One record per dedup key: no two records held by the Store have the
\* same getNotificationKey on their current fields.
C4_OneRecordPerKey ==
    \A i, j \in 1..Len(store) :
        i # j => getNotificationKey(store[i].rec) # getNotificationKey(store[j].rec)

\* C5 - Capability honoring: every record in the Controller's Store whose
\* source is json or html has category mention.
C5_CapabilityHonoring ==
    \A r \in StoreRecs(store) : r.source \in {"json", "html"} => r.category = "mention"

\* C5 witness: a join whose JSON and HTML results both carried a comment,
\* and whose mentions are in the Store.
C5_Witness ==
    /\ JustJoined
    /\ Results.jsonResult.status = "fulfilled"
    /\ JsonComment \in Range(Results.jsonResult.value)
    /\ Results.htmlResult.status = "fulfilled"
    /\ HtmlComment \in Range(Results.htmlResult.value)
    /\ {"json", "html"} \subseteq {r.source : r \in StoreRecs(store)}

\* C6 - Auth distinguishing: whenever the merge leaves the Store empty and
\* the Structured-API fetch failed with an authentication-class error (no
\* stored token, or a 401), the load ends in authRequired and onError('auth')
\* is the callback invoked (the callback returning normally).
C6_AuthDistinguishing ==
    (/\ JustJoined
     /\ ~ev.threw
     /\ size(store) = 0
     /\ AuthClassFailure(Results.apiResult))
    => /\ ev.outcome = "authRequired"
       /\ ev.callbacks = <<Call("onError", "auth", FALSE)>>

\* C7 - Auth failure with partial data: when the Structured-API fetch fails
\* with an authentication error but the JSON or HTML fetcher returned a
\* mention, every returned mention is in the Store (itself or a same-key
\* mention of at least its rank), onUpdate is invoked, onError is not, the
\* load does not end in authRequired, and it ends in success unless the
\* update callback threw.
C7_AuthFailurePartialData ==
    (/\ JustJoined
     /\ AuthClassFailure(Results.apiResult)
     /\ \E n \in Offered : IsMention(n))
    => /\ \A n \in Offered :
             \E r \in StoreRecs(store) :
                /\ IsMention(r)
                /\ getNotificationKey(r) = getNotificationKey(n)
                /\ sourcePriority(r.source) >= sourcePriority(n.source)
       /\ Invoked("onUpdate")
       /\ ~Invoked("onError")
       /\ ev.outcome # "authRequired"
       /\ ~ev.threw => ev.outcome = "success" /\ error = Nil

\* C7 witness: no stored token, the JSON fetcher returned a mention, the
\* load ended in success.
C7_Witness ==
    /\ JustJoined
    /\ Results.apiResult = Rejected(MsgNotAuthenticated)
    /\ Results.jsonResult.status = "fulfilled"
    /\ JsonMention \in StoreRecs(store)
    /\ ev.outcome = "success"

\* C8 - An exception raised while the join is processed is caught: its
\* message is stored in error, onUpdate is invoked after that, and isLoading
\* is false once load() has finished.
C8_ExceptionCaught ==
    (ev.kind = "join" /\ ev.threw)
    => /\ error = Some(MsgCallbackThrew)
       /\ ev.outcome = "error"
       /\ ev.callbacks[Len(ev.callbacks)].cb = "onUpdate"
       /\ ~isLoading

\* C8 witness: the update callback threw in a join that had merged records.
C8_Witness ==
    /\ ev.kind = "join"
    /\ ev.threw
    /\ size(store) > 0
    /\ ev.callbacks[1].cb = "onUpdate"

\* C9 - Liveness of the load cycle: once the fetchers are left to settle,
\* every load that entered loading ends in success, authRequired or error
\* with isLoading false; and a load() called when none is in flight is
\* accepted (it enters loading).
C9_LoadTerminates ==
    /\ isLoading ~> (/\ ~isLoading
                     /\ ev.kind = "join"
                     /\ ev.outcome \in {"success", "authRequired", "error"})
    /\ [][(~dropdown /\ dropdown' /\ ~isLoading) => (isLoading' /\ Len(loads') = 1)]_vars

\* C9 witness: a load is in flight that was accepted after an earlier load
\* had ended in success (its enrichment is still running).
C9_Witness ==
    /\ isLoading
    /\ Len(loads) = 1
    /\ Len(enrichments) > 0

\* C10 as stated - every record the fulfilled fetchers offered is in the
\* Store at the update callback, itself or a same-key higher-ranked copy.
C10_RepresentedByHigherRank ==
    (JustJoined /\ Invoked("onUpdate"))
    => \A n \in Offered :
          \/ n \in StoreRecs(store)
          \/ \E r \in StoreRecs(store) :
                /\ getNotificationKey(r) = getNotificationKey(n)
                /\ sourcePriority(r.source) > sourcePriority(n.source)

\* C10 - Source-failure isolation, amended: whichever fetchers rejected,
\* every API record and every JSON or HTML mention of the fetchers that
\* fulfilled is in the Store at the update callback, itself or a same-key
\* copy of equal or higher rank.
C10_SourceFailureIsolation ==
    (JustJoined /\ Invoked("onUpdate"))
    => \A n \in Offered :
          \/ n \in StoreRecs(store)
          \/ \E r \in StoreRecs(store) :
                /\ getNotificationKey(r) = getNotificationKey(n)
                /\ sourcePriority(r.source) >= sourcePriority(n.source)

\* C10 witness: two fetchers rejected, the third one's mention is in the
\* Store when onUpdate is invoked.
C10_Witness ==
    /\ JustJoined
    /\ Invoked("onUpdate")
    /\ Results.apiResult.status = "rejected"
    /\ Results.jsonResult.status = "rejected"
    /\ Results.htmlResult.status = "fulfilled"
    /\ HtmlPending \in StoreRecs(store)

\* The three lists the join hands to store.add: API records, JSON mentions,
\* HTML mentions (an empty list for a fetcher that rejected).
ResultLists ==
    << IF Results.apiResult.status = "fulfilled" THEN Results.apiResult.value ELSE <<>>,
       IF Results.jsonResult.status = "fulfilled"
       THEN SelectSeq(Results.jsonResult.value, IsMention) ELSE <<>>,
       IF Results.htmlResult.status = "fulfilled"
       THEN SelectSeq(Results.htmlResult.value, IsMention) ELSE <<>> >>

\* The six orders in which three lists can be added.
Orders == {p \in [1..3 -> 1..3] : \A i, j \in 1..3 : i # j => p[i] # p[j]}

\* The Store after the three lists were added to an empty Store in order p.
mergedInOrder(p) ==
    add(add(add(<<>>, ResultLists[p[1]]), ResultLists[p[2]]), ResultLists[p[3]])

\* C11 - Order independence: after a join, whatever order the fetchers
\* settled in, the set of records in the Store is the set that adding the
\* three result lists in any of the six orders produces.
C11_OrderIndependence ==
    JustJoined => \A p \in Orders : StoreRecs(mergedInOrder(p)) = StoreRecs(store)

\* C11 witness: JSON and HTML both returned the same mention (one key), the
\* API returned its records, and the Store holds the JSON copy.
C11_Witness ==
    /\ JustJoined
    /\ Results.apiResult.status = "fulfilled"
    /\ Results.jsonResult.status = "fulfilled"
    /\ Results.htmlResult.status = "fulfilled"
    /\ JsonMention \in Range(ResultLists[2])
    /\ HtmlMention \in Range(ResultLists[3])
    /\ ApiComment1 \in StoreRecs(store)
    /\ JsonMention \in StoreRecs(store)
    /\ HtmlMention \notin StoreRecs(store)

\* An enrich() activation has run to its end in the last step.
EnrichmentCompleted == ev.kind \in {"resolved", "fetched"} /\ ev.outcome # "pending"

C13_IdleBeforeCallback ==
    (ev.kind = "join" /\ ev.outcome # "authRequired")
    => \A i \in 1..Len(ev.callbacks) :
          ev.callbacks[i].cb = "onUpdate" => ~ev.callbacks[i].isLoading

\* b is a with its pending comment id resolved to some observation.
ResolvedFrom(a, b) ==
    /\ startsWithComment(a)
    /\ \E n \in RedirectTargets :
          b = [a EXCEPT !.observationId = ObsId(n),
                        !.observationUrl = AnchoredUrl(n, a.observationId.num)]

\* C14 - Enrichment never drops a record: a step of enrich() (after the
\* comment-id resolution or after the observation fetch, succeeded or
\* failed) leaves the Store with the same entries under the same keys in
\* the same order; each record is unchanged except for its observation
\* block, or is a pending mention now resolved.  A mention that is still
\* pending afterwards is therefore unchanged in observationId and URL.
C14_EnrichmentKeepsRecords ==
    [][(ev'.kind \in {"resolved", "fetched"} /\ enrichments' # enrichments)
        => /\ Len(store') = Len(store)
           /\ \A i \in 1..Len(store) :
                 /\ store'[i].key = store[i].key
                 /\ \/ [store'[i].rec EXCEPT !.observation = store[i].rec.observation]
                          = store[i].rec
                    \/ ResolvedFrom(store[i].rec, store'[i].rec)]_vars

\* C14 witness: the comment-id resolution ran and failed for comment 5; the
\* mention is still in the Store with its pending id and /comments/ URL.
C14_Witness ==
    /\ ev.kind = "resolved"
    /\ HtmlPending \in StoreRecs(store)
    /\ Len(store) > 1

----------------------------------------------------------------------------
(* Claims about the normalizer and the Store's methods, checked under      *)
(* NormSpec.                                                               *)

\* C15 - Enrichment idempotence: for every Store state and every
\* observations map, enrichWithObservations applied twice leaves the Store
\* as applying it once does.
C15_EnrichmentIdempotent ==
    \A fetched \in SUBSET ObservationIds :
        enrichWithObservations(enrichWithObservations(sStore, fetched), fetched)
            = enrichWithObservations(sStore, fetched)

\* C15 witness: the Store was enriched; one record carries an observation
\* block, another does not, and a further map would change the Store.
C15_Witness ==
    /\ sEvents = {"enriched"}
    /\ \E r \in StoreRecs(sStore) : r.observation # Nil
    /\ \E r \in StoreRecs(sStore) : r.observation = Nil
    /\ enrichWithObservations(sStore, ObservationIds) # sStore

\* The position of record r in list.
IndexIn(list, r) == CHOOSE i \in 1..Len(list) : list[i] = r

\* C16 - Null-safe sorting: getAll() returns every stored record exactly
\* once; no record without a timestamp comes before one with a timestamp;
\* the timestamped records are in non-increasing createdAt order; the
\* records without a timestamp are in their Store insertion order.
C16_NullSafeSorting ==
    LET out == getAll(sStore)
        stored == values(sStore)
    IN /\ Len(out) = Len(stored)
       /\ \A r \in Range(stored) : Cardinality({i \in 1..Len(out) : out[i] = r}) = 1
       /\ \A i, j \in 1..Len(out) :
             i < j =>
                /\ out[i].createdAt = Nil => out[j].createdAt = Nil
                /\ (out[i].createdAt # Nil /\ out[j].createdAt # Nil)
                      => out[i].createdAt[1] >= out[j].createdAt[1]
                /\ (out[i].createdAt = Nil /\ out[j].createdAt = Nil)
                      => IndexIn(stored, out[i]) < IndexIn(stored, out[j])

\* C16 witness: the Store holds, in insertion order, a record without a
\* timestamp, an older and a newer timestamped record or a second record
\* without a timestamp, so that getAll() has to reorder.
C16_Witness ==
    /\ Len(sStore) = 3
    /\ sStore[1].rec.createdAt = Nil
    /\ sStore[2].rec.createdAt # Nil
    /\ sStore[3].rec.createdAt = Nil
    /\ getAll(sStore) = <<sStore[2].rec, sStore[1].rec, sStore[3].rec>>

\* The distance between two timestamps.
Apart(t1, t2) == IF t1 >= t2 THEN t1 - t2 ELSE t2 - t1

\* C17 - The 10-minute bucket absorbs skew: the Store never holds two
\* entries from different sources with the same observationId, category
\* and user login whose timestamps are less than 10 minutes apart (they
\* received one dedup key and merged).
C17_BucketAbsorbsSkew ==
    \A i, j \in 1..Len(sStore) :
        LET a == sStore[i].rec
            b == sStore[j].rec
        IN (/\ i # j
            /\ a.source # b.source
            /\ a.observationId = b.observationId
            /\ a.category = b.category
            /\ a.login = b.login
            /\ a.createdAt # Nil
            /\ b.createdAt # Nil)
           => Apart(a.createdAt[1], b.createdAt[1]) >= BucketMs

\* The three values of the category enum.
Categories == {"mention", "comment", "identification"}

\* C18 - Category invariant: every record createNotification produced has
\* a category that is one of mention, comment, identification.
C18_CategoryInvariant ==
    \A r \in StoreRecs(sStore) : r.category \in Categories

\* C19 - Unknown viewed state is never guessed: every html-sourced record
\* has viewed = null; getUnread() returns exactly the records with viewed =
\* false and getRead() exactly those with viewed = true, each once; the two
\* results are disjoint and a record with viewed = null is in neither.
C19_UnknownViewedNotGuessed ==
    LET unread == getUnread(sStore)
        read == getRead(sStore)
    IN /\ \A r \in StoreRecs(sStore) : r.source = "html" => r.viewed = "null"
       /\ Range(unread) = {r \in StoreRecs(sStore) : r.viewed = "false"}
       /\ Range(read) = {r \in StoreRecs(sStore) : r.viewed = "true"}
       /\ Len(unread) = Cardinality(Range(unread))
       /\ Len(read) = Cardinality(Range(read))
       /\ Range(unread) \cap Range(read) = {}
       /\ \A r \in StoreRecs(sStore) :
             r.viewed = "null" => r \notin Range(unread) \cup Range(read)

\* C19 witness: the Store holds an unread record, a read one and an html
\* record whose viewed state is unknown.
C19_Witness ==
    /\ Len(getUnread(sStore)) = 1
    /\ Len(getRead(sStore)) = 1
    /\ \E r \in StoreRecs(sStore) : r.source = "html" /\ r.viewed = "null"

\* C20 - Store.resolveCommentIds(mapping): every stored record whose
\* observationId carries the marker 'comment_<id>' and whose comment id has
\* an entry in mapping gets the mapped id as observationId and the anchored
\* observation URL; every other record is unchanged.
C20_ResolveCommentIds ==
    \A mapping \in CommentMappings :
        LET resolved == resolveCommentIds(sStore, mapping) IN
        /\ Len(resolved) = Len(sStore)
        /\ \A i \in 1..Len(sStore) :
              LET notif == sStore[i].rec IN
              IF startsWithComment(notif) /\ mapping[notif.observationId.num] # Nil
              THEN resolved[i].rec =
                      [notif EXCEPT
                          !.observationId = ObsId(mapping[notif.observationId.num][1]),
                          !.observationUrl = AnchoredUrl(mapping[notif.observationId.num][1],
                                                         notif.observationId.num)]
              ELSE resolved[i].rec = notif

----------------------------------------------------------------------------
(* Further claims about the Controller session, checked under Spec.        *)

\* The observation block of r, if any, was built from the observation whose
\* id is embedded in r's observationUrl.
BlockMatchesUrl(r) ==
    r.observation # Nil
    => urlObservationId(r.observationUrl) = Some(r.observation[1].builtFrom)

\* C21 - Superseded enrichment is harmless: in every reachable state every
\* record's observation block was built from the observation its
\* observationUrl names; and a step that completes an observation fetch,
\* of the current load or of an earlier one, leaves each record unchanged
\* or with exactly the block of its own observation.
C21_SupersededEnrichmentHarmless ==
    /\ [](\A r \in StoreRecs(store) : BlockMatchesUrl(r))
    /\ [][(ev'.kind = "fetched" /\ enrichments' # enrichments)
            => /\ Len(store') = Len(store)
               /\ \A i \in 1..Len(store) :
                     \/ store'[i] = store[i]
                     \/ /\ urlObservationId(store[i].rec.observationUrl) # Nil
                        /\ store'[i] =
                              [store[i] EXCEPT !.rec.observation =
                                  Some(observationBlock(ObsData(
                                      store[i].rec.observationUrl.num)))]]_vars

\* C21 witness: the enrichment of an earlier load completed its observation
\* fetch and wrote a block into the Store of a later load, whose own
\* enrichment is still waiting for its comment-id resolution.
C21_Witness ==
    /\ ev.kind = "fetched"
    /\ ev.outcome = "enriched"
    /\ Len(enrichments) = 1
    /\ enrichments[1].pc = "resolve"
    /\ enrichments[1].mentions # <<>>
    /\ \E r \in StoreRecs(store) : r.observation # Nil
    /\ \E r \in StoreRecs(store) : r.observation = Nil

\* C22 - Store lifecycle at UI close: whenever the dropdown is closed, the
\* Controller's Store is empty.
C22_StoreEmptyWhenClosed ==
    ~dropdown => size(store) = 0


----------------------------------------------------------------------------
(* Claims about the fetch helpers, checked under FetchSpec.                *)

\* C23: normalization never fails a batch: whatever items the raw payload
\* of the JSON or the API fetcher holds (null ones and ones with fields
\* missing included), the fetch fulfils, and it returns one normalized
\* record for every item of the payload that is not null.
C23_NormalizationNeverFailsBatch ==
    call.fn \in {"JsonFetcher.fetch", "ApiV1Fetcher.fetch"}
    => /\ call.result.status = "fulfilled"
       /\ Len(call.result.value)
              = Cardinality({i \in 1..Len(call.input) : call.input[i] # Nil})

\* A probe that ended at an observation page.
Redirected(outcome) == ~outcome.threw /\ urlObservationId(outcome.url) # Nil

\* C24: resolution-item isolation: resolveCommentIds probes every comment id
\* of its input, in order, whatever the earlier probes did; every id with a
\* probe that ended at an observation is in the returned mapping, mapped to
\* an observation one of its probes ended at; an id without such a probe is
\* absent from the mapping.
C24_ResolutionItemIsolation ==
    call.fn = "resolveCommentIds"
    => /\ call.attempted = call.input
       /\ \A i \in 1..Len(call.input) :
              Redirected(call.outcomes[i]) => call.input[i] \in DOMAIN call.result
       /\ \A c \in DOMAIN call.result :
              \E i \in 1..Len(call.input) :
                  /\ call.input[i] = c
                  /\ Redirected(call.outcomes[i])
                  /\ call.result[c] = call.outcomes[i].url.num

\* The first probe throws and the second one ends at an observation, whose
\* id alone is in the mapping.
C24_Witness ==
    /\ call.fn = "resolveCommentIds"
    /\ Len(call.input) = 2
    /\ call.input[1] # call.input[2]
    /\ call.outcomes[1].threw
    /\ Redirected(call.outcomes[2])
    /\ DOMAIN call.result = {call.input[2]}

\* The batches, joined in the order they were requested.
RECURSIVE Flatten(_)
Flatten(batches) ==
    IF batches = <<>> THEN <<>> ELSE Head(batches) \o Flatten(Tail(batches))

\* C25: batch isolation: the batches fetchObservations requests are
\* consecutive slices of the ids, each of 1 to 30 ids, that together hold
\* every id exactly once; one batch is requested per answer of the network,
\* failed answers included; and the returned map holds exactly the
\* observations of the batches that were answered OK with results.
C25_BatchIsolation ==
    call.fn = "fetchObservations"
    => /\ Flatten(call.attempted) = call.input
       /\ \A b \in 1..Len(call.attempted) :
              Len(call.attempted[b]) \in 1..batchSize
       /\ Len(call.attempted) = Len(call.outcomes)
       /\ DOMAIN call.result
              = UNION {Range(call.attempted[b]) :
                          b \in {k \in 1..Len(call.attempted) : call.outcomes[k] = "ok"}}
       /\ \A o \in DOMAIN call.result : call.result[o] = ObsData(o)

\* Three batches of 30, 30 and 1 ids: the first throws, the second is
\* answered non-OK, the third is answered and alone is in the map.
C25_Witness ==
    /\ call.fn = "fetchObservations"
    /\ Len(call.input) = 2 * batchSize + 1
    /\ call.outcomes = <<"throws", "notOk", "ok">>
    /\ Len(call.attempted) = 3
    /\ DOMAIN call.result = {call.input[Len(call.input)]}


----------------------------------------------------------------------------
(* Further claims about createNotification and the Store, checked under    *)
(* NormSpec.                                                               *)

\* Two mentions on one observation in one time bucket (or both without a
\* time).
SameMention(a, b) ==
    /\ a.category = "mention"
    /\ b.category = "mention"
    /\ a.observationId = b.observationId
    /\ timeKey(a) = timeKey(b)

----------------------------------------------------------------------------
(* A further claim about the Store, checked under StoreSpec.               *)

\* C27: equal-or-lower rank is discarded: for every Store state and every
\* record whose dedup key is present with a stored record of equal or
\* higher source rank, add of that record leaves the Store's entries, their
\* order and its size as they were.
C27_EqualOrLowerRankDiscarded ==
    \A notif \in Universe :
        LET key == getNotificationKey(notif) IN
        (/\ MapHas(sStore, key)
         /\ sourcePriority(notif.source) <= sourcePriority(MapGet(sStore, key).source))
        => /\ add(sStore, <<notif>>) = sStore
           /\ size(add(sStore, <<notif>>)) = size(sStore)
           /\ addEvent(sStore, notif) = "discarded"

\* C27 witness: the last add() only discarded, and the record that survives
\* is an html one stamped 12:00, so what was discarded was html too (equal
\* rank); another html record with the same key, stamped 12:04, would be
\* discarded as well.
C27_Witness ==
    /\ sEvents = {"discarded"}
    /\ size(sStore) = 1
    /\ sStore[1].rec.source = "html"
    /\ sStore[1].rec.createdAt = Some(T0)
    /\ \E notif \in Universe :
          /\ notif # sStore[1].rec
          /\ notif.source = "html"
          /\ getNotificationKey(notif) = sStore[1].key

----------------------------------------------------------------------------
(* Claims about the load's join and its outcome, checked under Spec.       *)

\* A fetcher of the load is still pending.
StillFetching(L) == "pending" \in {L.api.status, L.json.status, L.html.status}

\* C28: join barrier: in every step taken while a fetcher of the load in
\* flight is pending, the load stays suspended, no record is added to the
\* Store, and a handler that runs is not the load's join - the only
\* callbacks are those of an earlier load's enrichment.
C28_JoinBarrier ==
    [][(Len(loads) = 1 /\ StillFetching(loads[1]))
        => /\ Len(loads') = 1
           /\ StoreRecs(store') \subseteq StoreRecs(store)
           /\ isLoading'
           /\ ev' # ev => /\ ev'.kind \in {"noop", "close", "resolved", "fetched"}
                          /\ \A i \in 1..Len(ev'.callbacks) :
                                ev'.kind = "fetched" /\ ev'.callbacks[i].cb = "onUpdate"]_vars

\* C28 witness: two fetchers have fulfilled with records, the third is
\* pending, and the Store is still empty.
C28_Witness ==
    /\ Len(loads) = 1
    /\ loads[1].api.status = "fulfilled"
    /\ loads[1].api.value # <<>>
    /\ loads[1].json.status = "fulfilled"
    /\ loads[1].json.value # <<>>
    /\ loads[1].html.status = "pending"
    /\ store = <<>>
    /\ isLoading

\* The callbacks the handler of the step invoked, by name and argument.
CallsOf(e) == [i \in 1..Len(e.callbacks) |-> <<e.callbacks[i].cb, e.callbacks[i].arg>>]

FetchedAs(r, o) ==
    /\ r.id = o.id
    /\ r.source = o.source
    /\ r.category = o.category
    /\ r.viewed = o.viewed
    /\ r.createdAt = o.createdAt
    /\ r.login = o.login

\* C30: no carry-over between loads: the step that starts a load leaves the
\* Store empty, the Store is empty in every state in which a load is in
\* flight, and every record the Store holds is, up to the fields enrichment
\* rewrites, a record the most recent join offered from its own fetch
\* results.
C30_NoCarryOver ==
    /\ [][(~isLoading /\ isLoading') => size(store') = 0]_vars
    /\ [](isLoading => size(store) = 0)
    /\ [](\A r \in StoreRecs(store) :
             /\ debugData # Nil
             /\ \E o \in Offered : FetchedAs(r, o))

\* C30 witness: a second load has joined while the enrichment of the first
\* is still running; the first load's API records are gone and the Store
\* holds only the mentions the second load fetched.
C30_Witness ==
    /\ ev.kind = "join"
    /\ Len(enrichments) = 2
    /\ enrichments[1].pc = "fetch"
    /\ \E n \in Range(enrichments[1].obsIds) :
          \A r \in StoreRecs(store) : r.observationId # ObsId(n)
    /\ Results.apiResult.status = "rejected"
    /\ store # <<>>

----------------------------------------------------------------------------
(* Claims about enrichment and the Store's contents, checked under Spec.   *)

\* The ids stage 2 will fetch, after a step in which an activation left
\* stage 1: those of the activation now suspended at the fetch, none when
\* the activation returned.
StageTwoIds(before, after) ==
    IF Len(after) # Len(before) THEN {}
    ELSE UNION {Range(after[j].obsIds) :
                   j \in {k \in 1..Len(after) :
                             before[k].pc = "resolve" /\ after[k].pc = "fetch"}}

\* C31: enrichment stage order: in the step that ends stage 1, every
\* mention of the Store that the step resolved has its observation id among
\* the ids stage 2 fetches, and every id fetched is the id in the URL of a
\* record of the Store as the step leaves it; a mention still pending has no
\* observation id in its URL, so it contributes none, and in no state does a
\* pending mention carry an observation block.
C31_EnrichmentStageOrder ==
    /\ [][(ev'.kind = "resolved" /\ enrichments' # enrichments)
            => /\ \A i \in 1..Len(store) :
                     (startsWithComment(store[i].rec) /\ ~startsWithComment(store'[i].rec))
                     => store'[i].rec.observationId.num
                            \in StageTwoIds(enrichments, enrichments')
               /\ \A n \in StageTwoIds(enrichments, enrichments') :
                     \E r \in StoreRecs(store') : r.observationUrl.num = n
               /\ \A r \in StoreRecs(store') :
                     startsWithComment(r) => urlObservationId(r.observationUrl) = Nil]_vars
    /\ [](\A r \in StoreRecs(store) : startsWithComment(r) => r.observation = Nil)

\* C31 witness: stage 1 resolved the pending mention to observation 200,
\* which no other record of the Store is about, and the activation is
\* suspended at the fetch of an id list that holds 200.
C31_Witness ==
    /\ ev.kind = "resolved"
    /\ ev.outcome = "pending"
    /\ \E r \in StoreRecs(store) :
          /\ r.id = HtmlPending.id
          /\ r.observationId = ObsId(200)
          /\ \A q \in StoreRecs(store) : q # r => q.observationUrl.num # 200
    /\ \E j \in 1..Len(enrichments) :
          enrichments[j].pc = "fetch" /\ 200 \in Range(enrichments[j].obsIds)

----------------------------------------------------------------------------
(* A further claim about the dedup key, checked under FetchSpec.           *)

\* The login a record is keyed by, and its time bucket (Nil for the bucket
\* 'unknown').
LoginOrUnknown(r) == IF r.login = "" THEN "unknown" ELSE r.login

BucketOf(r) == IF r.createdAt = Nil THEN Nil ELSE Some(r.createdAt[1] \div BucketMs)

PagesFor(total) ==
    CHOOSE n \in 0..total : n * perPage >= total /\ (n = 0 \/ (n - 1) * perPage < total)

\* C34: page bookkeeping: totalPages is at least 1 in every state; the join
\* of a load whose API fetch fulfilled sets it to max(1, ceil(total /
\* perPage)), the join of a load whose API fetch failed leaves it as it
\* was, and no other step changes it.
C34_PageBookkeeping ==
    /\ [](totalPages >= 1)
    /\ [][IF Len(loads') < Len(loads)
          THEN IF loads[1].api.status = "fulfilled"
               THEN totalPages' = IF PagesFor(loads[1].api.total) > 1
                                  THEN PagesFor(loads[1].api.total) ELSE 1
               ELSE totalPages' = totalPages
          ELSE totalPages' = totalPages]_vars

\* C34 witness: a load whose API fetch was rejected has joined and the page
\* count is still the 3 an earlier load set.
C34_Witness ==
    /\ JustJoined
    /\ Results.apiResult.status = "rejected"
    /\ totalPages = 3

----------------------------------------------------------------------------
\* C35: counts are consistent: in every state of a Controller session,
\* getCounts().total is the Store's size and the sum of the three category
\* counts, and each category count is the length of getByCategory for it.
C35_CountsConsistent ==
    LET counts == getCounts(store) IN
    /\ counts.total = size(store)
    /\ counts.total = counts.mention + counts.comment + counts.identification
    /\ \A category \in {"mention", "comment", "identification"} :
           counts[category] = Len(getByCategory(store, category))

\* C35 witness: the Store holds records of all three categories, one of
\* them already viewed, after a load.
C35_Witness ==
    /\ JustJoined
    /\ getCounts(store).mention > 0
    /\ getCounts(store).comment > 0
    /\ getCounts(store).identification > 0
    /\ \E k \in 1..Len(values(store)) : values(store)[k].viewed = "true"

----------------------------------------------------------------------------
\* C36: no update during a transient empty Store: onUpdate is never invoked
\* between the moment a load clears the Store and the moment that load
\* merges its results, so a handler that invoked onUpdate leaves no load in
\* flight; in particular the enrichment an earlier load started never
\* invokes it while a later load is in flight.
C36_NoUpdateWhileLoading ==
    Invoked("onUpdate") => loads = <<>>

----------------------------------------------------------------------------
\* C37: sidebar page consistency: whenever the sidebar renders the list
\* after a load (the join invoked onUpdate), the results merged into the
\* Store are those fetched for the current notifPage.
C37_SidebarPageConsistency ==
    (ev.kind = "join" /\ Invoked("onUpdate")) => ev.page = Some(notifPage)

----------------------------------------------------------------------------
\* C38: token invalidation: after an API request is answered with 401 the
\* stored token is cleared; every API request made after that and before a
\* new token is stored fails with 'Not authenticated' and sends nothing;
\* and a request is only sent with a token whose stored expiry is in the
\* future.
C38_TokenInvalidation ==
    /\ log.last.outcome = "sessionExpired" =>
           local.jwt = Nil /\ local.expiry = Nil
    /\ (log.last.kind = "request" /\ log.last.afterClear) =>
           log.last.outcome = "notAuthenticated" /\ ~log.last.sent
    /\ (log.last.kind = "request" /\ log.last.sent) =>
           log.last.expiry # Nil /\ log.last.expiry[1] > log.last.at

\* C38 witness: a request made after a 401 cleared the token failed without
\* being sent, although the token that was cleared had not yet expired.
C38_Witness ==
    /\ log.last.kind = "request"
    /\ log.last.afterClear
    /\ log.last.outcome = "notAuthenticated"
    /\ log.tokens > 0
    /\ log.last.at < JWT_LIFETIME

----------------------------------------------------------------------------
\* C39: saved items are not lost: every item addTodo or addResearch
\* returned is in the stored data until deleteItem removes it or importData
\* replaces the data, also when the handlers of several storage messages
\* interleave.
C39_SavedItemsNotLost ==
    \A id \in log.saved : \E k \in 1..Len(local.items) : local.items[k].id = id

=============================================================================
